---- MODULE Spec2Model ----
(***************************************************************************)
(* Model of the decode-side physical encoding layer of lance-encoding      *)
(* (v2/encodings/physical.rs): the buffer locator get_buffer, the Flat     *)
(* buffer decoder get_buffer_decoder and the recursive encoding-tree       *)
(* interpreter decoder_from_array_encoding.                                *)
(*                                                                         *)
(* Conventions.  Option<T> is a sequence of length 0 (None) or 1           *)
(* (Some(x)); a pair (u64, u64) of a buffer address table is a record      *)
(* with fields position and size.  A Rust function that may panic          *)
(* evaluates to Ok(v) or to Panic(reason); a panic of a callee is          *)
(* propagated unchanged, in the evaluation order of the Rust source.       *)
(* Box<dyn PageScheduler> is a record whose field "scheduler" names the    *)
(* concrete type and whose other fields are the arguments handed to its    *)
(* constructor.                                                            *)
(***************************************************************************)
EXTENDS Integers, Sequences, FiniteSets, TLC

VARIABLES
    call,        \* the invocation being served: function name and arguments
    result,      \* what the invocation returned (Ok / Panic), or NoResult
    heap,        \* the descriptors, tables and types concurrent callers borrow
    invocations, \* per thread: its invocation of decoder_from_array_encoding
    builder,     \* the DatasetBuilder, as far as load's session depends on it
    loaded,      \* the session DatasetBuilder::load went on with
    calls,       \* the builder methods called so far, in order
    session_set, \* the session most recently handed to the builder, if any
    active_requests, \* per IoTrackingStore: its AtomicU16 of live HopGuards
    stats,       \* the IoStats the stores record into (behind its Mutex)
    tasks,       \* per task: the request it has issued and how far it got
    issued,      \* the requests and upload parts issued so far
    periods,     \* the periods with a request in flight that have ended
                 \* since the stats were last taken
    generator,   \* the TestDatasetGenerator: its data and its seed
    streams,     \* per seed: the numbers its random generator gave so far
    runs         \* per call of make_hostile: how far it got and what it built

decoderVars == <<call, result>>
concurrentVars == <<heap, invocations>>
builderVars == <<builder, loaded, calls, session_set>>
ioVars == <<active_requests, stats, tasks, issued, periods>>
hostileVars == <<generator, streams, runs>>
vars == <<decoderVars, concurrentVars, builderVars, ioVars, hostileVars>>

\* the variables a part of the model leaves alone
outsideDecoder == <<concurrentVars, builderVars, ioVars, hostileVars>>
outsideConcurrent == <<decoderVars, builderVars, ioVars, hostileVars>>
outsideBuilder == <<decoderVars, concurrentVars, ioVars, hostileVars>>
outsideIo == <<decoderVars, concurrentVars, builderVars, hostileVars>>
outsideHostile == <<decoderVars, concurrentVars, builderVars, ioVars>>

(***************************************************************************)
(* Bounds of the exploration.                                              *)
(***************************************************************************)
MaxTableLen == 2      \* longest buffer address table of a scope
MaxDepth == 2         \* deepest nesting of wrapper nodes over a leaf
MaxFields == 2        \* most fields of a struct logical type
MaxItemRows == 9      \* most item rows under a fixed-size-list strategy
MaxThreads == 2       \* most threads constructing schedulers at a time
MaxCalls == 3         \* most DatasetBuilder methods called before load
MaxRequests == 2      \* most requests and upload parts issued to the stores
MaxBatches == 2       \* most batches of the generated data
MaxDraws == 8         \* most numbers taken from one random generator

(***************************************************************************)
(* Option, Result and panics.                                              *)
(***************************************************************************)
None == <<>>
Some(x) == <<x>>
is_none(o) == Len(o) = 0
is_some(o) == Len(o) = 1

Ok(v) == [kind |-> "Ok", value |-> v]
Panic(reason) == [kind |-> "Panic", reason |-> reason]
is_panic(r) == r.kind = "Panic"
is_ok(r) == r.kind = "Ok"

NoCall == [fn |-> "none"]
NoResult == [kind |-> "NoResult"]

(***************************************************************************)
(* pb::buffer::BufferType as carried on the wire (an i32).                 *)
(***************************************************************************)
BufferType_Page == 0
BufferType_Column == 1
BufferType_File == 2

(***************************************************************************)
(* PageBuffers: the three buffer address tables.  The pairs of the three   *)
(* scopes are pairwise different, so that a pair tells its table.          *)
(***************************************************************************)
\* an entry (u64, u64) of a table
PositionAndSize(position, size) == [position |-> position, size |-> size]

PagePositions(n) == [i \in 1..n |-> PositionAndSize(9000 + 8 * (i - 1), 8)]
ColumnPositions(n) == [i \in 1..n |-> PositionAndSize(5000 + 50 * (i - 1), 50)]
FilePositions(n) == [i \in 1..n |-> PositionAndSize(100 * (i - 1), 100)]

PageBuffers(p, c, f) ==
    [positions_and_sizes |-> PagePositions(p),
     column_buffers |->
        [positions_and_sizes |-> ColumnPositions(c),
         file_buffers |-> [positions_and_sizes |-> FilePositions(f)]]]

BufferTables ==
    {PageBuffers(p, c, f) : p \in 0..MaxTableLen, c \in 0..MaxTableLen,
                            f \in 0..MaxTableLen}

\* slice[index]: Rust indexing panics when index is out of bounds
slice_index(slice, index) ==
    IF index < Len(slice) THEN Ok(slice[index + 1])
    ELSE Panic("index out of bounds")

(***************************************************************************)
(* get_buffer                                                              *)
(***************************************************************************)
\* get_buffer with the Column and File tables exchanged (a fault C1 excludes)
get_buffer_swapped_scopes(buffer_desc, buffers) ==
    LET index == buffer_desc.buffer_index IN
    CASE buffer_desc.buffer_type = BufferType_Page ->
            slice_index(buffers.positions_and_sizes, index)
      [] buffer_desc.buffer_type = BufferType_Column ->
            slice_index(buffers.column_buffers.file_buffers.positions_and_sizes, index)
      [] buffer_desc.buffer_type = BufferType_File ->
            slice_index(buffers.column_buffers.positions_and_sizes, index)
      [] OTHER -> Panic("unwrap on Err")

get_buffer(buffer_desc, buffers) ==
    LET index == buffer_desc.buffer_index IN
    CASE buffer_desc.buffer_type = BufferType_Page ->
            slice_index(buffers.positions_and_sizes, index)
      [] buffer_desc.buffer_type = BufferType_Column ->
            slice_index(buffers.column_buffers.positions_and_sizes, index)
      [] buffer_desc.buffer_type = BufferType_File ->
            slice_index(buffers.column_buffers.file_buffers.positions_and_sizes, index)
      [] OTHER -> Panic("unwrap on Err")

(***************************************************************************)
(* CompressionScheme::from_str and CompressionConfig::new                  *)
(***************************************************************************)
CompressionScheme_from_str(s) ==
    CASE s = "none" -> Ok("None")
      [] s = "zstd" -> Ok("Zstd")
      [] OTHER -> Panic("unwrap on Err")

CompressionConfig_new(scheme, level) == [scheme |-> scheme, level |-> level]

(***************************************************************************)
(* get_buffer_decoder                                                      *)
(***************************************************************************)
\* flat_compression_config falling back to no compression on an unknown
\* scheme name (a fault C6 excludes)
flat_compression_config_lenient(encoding) ==
    IF is_none(encoding.compression)
    THEN Ok(CompressionConfig_new("None", None))
    ELSE LET compression == encoding.compression[1]
             scheme == CompressionScheme_from_str(compression.scheme)
         IN IF is_panic(scheme)
            THEN Ok(CompressionConfig_new("None", compression.level))
            ELSE Ok(CompressionConfig_new(scheme.value, compression.level))

\* `let compression_config: CompressionConfig = if ... else ...`
flat_compression_config(encoding) ==
    IF is_none(encoding.compression)
    THEN Ok(CompressionConfig_new("None", None))
    ELSE LET compression == encoding.compression[1]
             scheme == CompressionScheme_from_str(compression.scheme)
         IN IF is_panic(scheme) THEN scheme
            ELSE Ok(CompressionConfig_new(scheme.value, compression.level))

\* flat_scheduler taking the bit width for the byte width (a fault C4 excludes)
flat_scheduler_bits_as_bytes(bits_per_value, buffer_offset, buffer_size, compression_config) ==
    IF bits_per_value = 1
    THEN Ok([scheduler |-> "DenseBitmapScheduler", buffer_offset |-> buffer_offset])
    ELSE IF bits_per_value % 8 # 0
    THEN Panic("not yet implemented")
    ELSE Ok([scheduler |-> "ValuePageScheduler",
             bytes_per_value |-> bits_per_value,
             buffer_offset |-> buffer_offset,
             buffer_size |-> buffer_size,
             compression_config |-> compression_config])

\* flat_scheduler handing the codec to the bitmap (a fault C5 excludes)
flat_scheduler_compressed_bitmap(bits_per_value, buffer_offset, buffer_size, compression_config) ==
    IF bits_per_value = 1
    THEN Ok([scheduler |-> "DenseBitmapScheduler", buffer_offset |-> buffer_offset,
             compression_config |-> compression_config])
    ELSE IF bits_per_value % 8 # 0
    THEN Panic("not yet implemented")
    ELSE Ok([scheduler |-> "ValuePageScheduler",
             bytes_per_value |-> bits_per_value \div 8,
             buffer_offset |-> buffer_offset,
             buffer_size |-> buffer_size,
             compression_config |-> compression_config])

\* flat_scheduler without the check of the width, rounding down (a fault C3
\* excludes)
flat_scheduler_truncating(bits_per_value, buffer_offset, buffer_size, compression_config) ==
    IF bits_per_value = 1
    THEN Ok([scheduler |-> "DenseBitmapScheduler", buffer_offset |-> buffer_offset])
    ELSE Ok([scheduler |-> "ValuePageScheduler",
             bytes_per_value |-> bits_per_value \div 8,
             buffer_offset |-> buffer_offset,
             buffer_size |-> buffer_size,
             compression_config |-> compression_config])

\* `match encoding.bits_per_value`
flat_scheduler(bits_per_value, buffer_offset, buffer_size, compression_config) ==
    IF bits_per_value = 1
    THEN Ok([scheduler |-> "DenseBitmapScheduler", buffer_offset |-> buffer_offset])
    ELSE IF bits_per_value % 8 # 0
    THEN Panic("not yet implemented")
    ELSE Ok([scheduler |-> "ValuePageScheduler",
             bytes_per_value |-> bits_per_value \div 8,
             buffer_offset |-> buffer_offset,
             buffer_size |-> buffer_size,
             compression_config |-> compression_config])

get_buffer_decoder(encoding, buffers) ==
    IF is_none(encoding.buffer) THEN Panic("unwrap on None") ELSE
    LET located == get_buffer(encoding.buffer[1], buffers) IN
    IF is_panic(located) THEN located ELSE
    LET buffer_offset == located.value.position
        buffer_size == located.value.size
        compression_config == flat_compression_config(encoding)
    IN
    IF is_panic(compression_config) THEN compression_config ELSE
    flat_scheduler(encoding.bits_per_value, buffer_offset, buffer_size,
                   compression_config.value)

(***************************************************************************)
(* get_bitpacked_buffer_decoder, get_bitpacked_for_non_neg_buffer_decoder  *)
(***************************************************************************)
get_bitpacked_buffer_decoder(encoding, buffers) ==
    IF is_none(encoding.buffer) THEN Panic("unwrap on None") ELSE
    LET located == get_buffer(encoding.buffer[1], buffers) IN
    IF is_panic(located) THEN located ELSE
    Ok([scheduler |-> "BitpackedScheduler",
        bits_per_value |-> encoding.compressed_bits_per_value,
        uncompressed_bits_per_value |-> encoding.uncompressed_bits_per_value,
        buffer_offset |-> located.value.position,
        signed |-> encoding.signed])

get_bitpacked_for_non_neg_buffer_decoder(encoding, buffers) ==
    IF is_none(encoding.buffer) THEN Panic("unwrap on None") ELSE
    LET located == get_buffer(encoding.buffer[1], buffers) IN
    IF is_panic(located) THEN located ELSE
    Ok([scheduler |-> "BitpackedForNonNegScheduler",
        compressed_bits_per_value |-> encoding.compressed_bits_per_value,
        uncompressed_bits_per_value |-> encoding.uncompressed_bits_per_value,
        buffer_offset |-> located.value.position])

(***************************************************************************)
(* arrow_schema::DataType, as far as the interpreter inspects it.          *)
(***************************************************************************)
DataType(id) == [id |-> id]
DataType_Struct(fields) == [id |-> "Struct", fields |-> fields]
DataType_Dictionary(key_type, value_type) ==
    [id |-> "Dictionary", key |-> key_type, value |-> value_type]
Field(name, data_type) == [name |-> name, data_type |-> data_type]

\* DataTypeExt::is_dictionary
is_dictionary(data_type) == data_type.id = "Dictionary"

(***************************************************************************)
(* decoder_from_array_encoding and decoder_from_packed_struct.  Each match *)
(* arm of decoder_from_array_encoding is an operator of its own.           *)
(***************************************************************************)
RECURSIVE decoder_from_array_encoding(_, _, _)
RECURSIVE decoder_from_packed_struct(_, _, _)
RECURSIVE inner_schedulers_from(_, _, _, _, _)
RECURSIVE decode_nullable(_, _, _)
RECURSIVE decode_fixed_size_list(_, _, _)
RECURSIVE decode_list(_, _, _)
RECURSIVE decode_binary(_, _, _)
RECURSIVE decode_fsst(_, _, _)
RECURSIVE decode_dictionary(_, _, _)
RECURSIVE decode_fixed_size_binary(_, _, _)

\* the loop `for i in 0..fields.len()` of decoder_from_packed_struct;
\* i counts from 0, inner_schedulers is the vector pushed so far
inner_schedulers_from(inner_encodings, fields, buffers, i, inner_schedulers) ==
    IF i >= Len(fields) THEN Ok(inner_schedulers) ELSE
    IF i >= Len(inner_encodings) THEN Panic("index out of bounds") ELSE
    LET inner_encoding == inner_encodings[i + 1]
        inner_datatype == fields[i + 1].data_type
        inner_scheduler ==
            decoder_from_array_encoding(inner_encoding, buffers, inner_datatype)
    IN
    IF is_panic(inner_scheduler) THEN inner_scheduler ELSE
    inner_schedulers_from(inner_encodings, fields, buffers, i + 1,
                          Append(inner_schedulers, inner_scheduler.value))

decoder_from_packed_struct(packed_struct, buffers, data_type) ==
    IF data_type.id # "Struct" THEN Panic("unwrap on None") ELSE
    LET inner_schedulers ==
            inner_schedulers_from(packed_struct.inner, data_type.fields, buffers, 0, <<>>)
    IN
    IF is_panic(inner_schedulers) THEN inner_schedulers ELSE
    IF is_none(packed_struct.buffer) THEN Panic("unwrap on None") ELSE
    LET located == get_buffer(packed_struct.buffer[1], buffers) IN
    IF is_panic(located) THEN located ELSE
    Ok([scheduler |-> "PackedStructPageScheduler",
        inner_schedulers |-> inner_schedulers.value,
        data_type |-> data_type,
        buffer_offset |-> located.value.position])

\* decode_nullable with validity and values exchanged (a fault C8 excludes)
decode_nullable_swapped(basic, buffers, data_type) ==
    IF is_none(basic.nullability) THEN Panic("unwrap on None") ELSE
    LET nullability == basic.nullability[1] IN
    CASE nullability.tag = "NoNulls" ->
            IF is_none(nullability.values) THEN Panic("unwrap on None") ELSE
            LET values ==
                    decoder_from_array_encoding(nullability.values[1], buffers, data_type)
            IN
            IF is_panic(values) THEN values ELSE
            Ok([scheduler |-> "BasicPageScheduler", mode |-> "None",
                values |-> values.value])
      [] nullability.tag = "SomeNulls" ->
            IF is_none(nullability.validity) THEN Panic("unwrap on None") ELSE
            LET validity ==
                    decoder_from_array_encoding(nullability.validity[1], buffers, data_type)
            IN
            IF is_panic(validity) THEN validity ELSE
            IF is_none(nullability.values) THEN Panic("unwrap on None") ELSE
            LET values ==
                    decoder_from_array_encoding(nullability.values[1], buffers, data_type)
            IN
            IF is_panic(values) THEN values ELSE
            Ok([scheduler |-> "BasicPageScheduler", mode |-> "Some",
                validity |-> values.value, values |-> validity.value])
      [] nullability.tag = "AllNulls" ->
            Ok([scheduler |-> "BasicPageScheduler", mode |-> "All"])

\* arm Nullable
decode_nullable(basic, buffers, data_type) ==
    IF is_none(basic.nullability) THEN Panic("unwrap on None") ELSE
    LET nullability == basic.nullability[1] IN
    CASE nullability.tag = "NoNulls" ->
            IF is_none(nullability.values) THEN Panic("unwrap on None") ELSE
            LET values ==
                    decoder_from_array_encoding(nullability.values[1], buffers, data_type)
            IN
            IF is_panic(values) THEN values ELSE
            Ok([scheduler |-> "BasicPageScheduler", mode |-> "None",
                values |-> values.value])
      [] nullability.tag = "SomeNulls" ->
            IF is_none(nullability.validity) THEN Panic("unwrap on None") ELSE
            LET validity ==
                    decoder_from_array_encoding(nullability.validity[1], buffers, data_type)
            IN
            IF is_panic(validity) THEN validity ELSE
            IF is_none(nullability.values) THEN Panic("unwrap on None") ELSE
            LET values ==
                    decoder_from_array_encoding(nullability.values[1], buffers, data_type)
            IN
            IF is_panic(values) THEN values ELSE
            Ok([scheduler |-> "BasicPageScheduler", mode |-> "Some",
                validity |-> validity.value, values |-> values.value])
      [] nullability.tag = "AllNulls" ->
            Ok([scheduler |-> "BasicPageScheduler", mode |-> "All"])

\* decode_fixed_size_list building every list with one item per row (a
\* fault C16 excludes)
decode_fixed_size_list_unit_dimension(fixed_size_list, buffers, data_type) ==
    IF is_none(fixed_size_list.items) THEN Panic("unwrap on None") ELSE
    LET item_scheduler ==
            decoder_from_array_encoding(fixed_size_list.items[1], buffers, data_type)
    IN
    IF is_panic(item_scheduler) THEN item_scheduler ELSE
    Ok([scheduler |-> "FixedListScheduler",
        items_scheduler |-> item_scheduler.value,
        dimension |-> 1])

\* arm FixedSizeList
decode_fixed_size_list(fixed_size_list, buffers, data_type) ==
    IF is_none(fixed_size_list.items) THEN Panic("unwrap on None") ELSE
    LET item_scheduler ==
            decoder_from_array_encoding(fixed_size_list.items[1], buffers, data_type)
    IN
    IF is_panic(item_scheduler) THEN item_scheduler ELSE
    Ok([scheduler |-> "FixedListScheduler",
        items_scheduler |-> item_scheduler.value,
        dimension |-> fixed_size_list.dimension])

\* decode_list putting a scheduler of its own around the offsets scheduler
\* (a fault C15 excludes)
decode_list_wrapping(list, buffers, data_type) ==
    IF is_none(list.offsets) THEN Panic("unwrap on None") ELSE
    LET offsets_scheduler ==
            decoder_from_array_encoding(list.offsets[1], buffers, data_type)
    IN
    IF is_panic(offsets_scheduler) THEN offsets_scheduler ELSE
    Ok([scheduler |-> "ListPageScheduler",
        offsets_scheduler |-> offsets_scheduler.value])

\* arm List
decode_list(list, buffers, data_type) ==
    IF is_none(list.offsets) THEN Panic("unwrap on None") ELSE
    decoder_from_array_encoding(list.offsets[1], buffers, data_type)

\* binary_offset_type with 4-byte offsets for every type (a fault C11 excludes)
binary_offset_type_narrow(data_type) == DataType("Int32")

\* `let offset_type = match data_type` of the Binary arm
binary_offset_type(data_type) ==
    IF data_type.id \in {"LargeBinary", "LargeUtf8"}
    THEN DataType("Int64") ELSE DataType("Int32")

\* arm Binary
decode_binary(binary, buffers, data_type) ==
    IF is_none(binary.indices) THEN Panic("unwrap on None") ELSE
    IF is_none(binary.bytes) THEN Panic("unwrap on None") ELSE
    LET indices_scheduler ==
            decoder_from_array_encoding(binary.indices[1], buffers, data_type)
    IN
    IF is_panic(indices_scheduler) THEN indices_scheduler ELSE
    LET bytes_scheduler ==
            decoder_from_array_encoding(binary.bytes[1], buffers, data_type)
    IN
    IF is_panic(bytes_scheduler) THEN bytes_scheduler ELSE
    Ok([scheduler |-> "BinaryPageScheduler",
        indices_scheduler |-> indices_scheduler.value,
        bytes_scheduler |-> bytes_scheduler.value,
        offset_type |-> binary_offset_type(data_type),
        null_adjustment |-> binary.null_adjustment])

\* arm Fsst
decode_fsst(fsst, buffers, data_type) ==
    IF is_none(fsst.binary) THEN Panic("unwrap on None") ELSE
    LET inner == decoder_from_array_encoding(fsst.binary[1], buffers, data_type) IN
    IF is_panic(inner) THEN inner ELSE
    Ok([scheduler |-> "FsstPageScheduler",
        inner_scheduler |-> inner.value,
        symbol_table |-> fsst.symbol_table])

\* dictionary_value_type keeping the dictionary type (a fault C9 excludes)
dictionary_value_type_whole(data_type) == data_type

\* `let value_type = if let DataType::Dictionary(_, value_type) = data_type`
dictionary_value_type(data_type) ==
    IF data_type.id = "Dictionary" THEN data_type.value ELSE data_type

\* should_decode_dict without the negation (a fault C10 excludes)
should_decode_dict_inverted(data_type) == is_dictionary(data_type)

\* `let should_decode_dict = !data_type.is_dictionary()`
should_decode_dict(data_type) == ~is_dictionary(data_type)

\* arm Dictionary
decode_dictionary(dictionary, buffers, data_type) ==
    IF is_none(dictionary.indices) THEN Panic("unwrap on None") ELSE
    IF is_none(dictionary.items) THEN Panic("unwrap on None") ELSE
    LET num_dictionary_items == dictionary.num_dictionary_items
        value_type == dictionary_value_type(data_type)
        indices_scheduler ==
            decoder_from_array_encoding(dictionary.indices[1], buffers, data_type)
    IN
    IF is_panic(indices_scheduler) THEN indices_scheduler ELSE
    LET items_scheduler ==
            decoder_from_array_encoding(dictionary.items[1], buffers, value_type)
    IN
    IF is_panic(items_scheduler) THEN items_scheduler ELSE
    Ok([scheduler |-> "DictionaryPageScheduler",
        indices_scheduler |-> indices_scheduler.value,
        items_scheduler |-> items_scheduler.value,
        num_dictionary_items |-> num_dictionary_items,
        should_decode_dict |-> should_decode_dict(data_type)])

\* fixed_size_binary_bytes_per_offset falling back to 4 bytes on a type that
\* is neither binary nor utf8 (a fault C12 excludes)
fixed_size_binary_bytes_per_offset_lenient(data_type) ==
    CASE data_type.id \in {"LargeBinary", "LargeUtf8"} -> Ok(8)
      [] OTHER -> Ok(4)

\* `let bytes_per_offset = match data_type` of the FixedSizeBinary arm
fixed_size_binary_bytes_per_offset(data_type) ==
    CASE data_type.id \in {"LargeBinary", "LargeUtf8"} -> Ok(8)
      [] data_type.id \in {"Binary", "Utf8"} -> Ok(4)
      [] OTHER -> Panic("FixedSizeBinary only supports binary and utf8 types")

\* arm FixedSizeBinary
decode_fixed_size_binary(fixed_size_binary, buffers, data_type) ==
    IF is_none(fixed_size_binary.bytes) THEN Panic("unwrap on None") ELSE
    LET bytes_scheduler ==
            decoder_from_array_encoding(fixed_size_binary.bytes[1], buffers, data_type)
    IN
    IF is_panic(bytes_scheduler) THEN bytes_scheduler ELSE
    LET bytes_per_offset == fixed_size_binary_bytes_per_offset(data_type) IN
    IF is_panic(bytes_per_offset) THEN bytes_per_offset ELSE
    Ok([scheduler |-> "FixedSizeBinaryPageScheduler",
        bytes_scheduler |-> bytes_scheduler.value,
        byte_width |-> fixed_size_binary.byte_width,
        bytes_per_offset |-> bytes_per_offset.value])

\* decoder_from_array_encoding building the strategy without data for a
\* Struct header node (a fault C14 excludes)
decoder_from_array_encoding_struct_header(encoding, buffers, data_type) ==
    IF is_none(encoding.array_encoding) THEN Panic("unwrap on None") ELSE
    LET node == encoding.array_encoding[1] IN
    CASE node.tag = "Nullable" -> decode_nullable(node, buffers, data_type)
      [] node.tag = "Bitpacked" -> get_bitpacked_buffer_decoder(node, buffers)
      [] node.tag = "Flat" -> get_buffer_decoder(node, buffers)
      [] node.tag = "FixedSizeList" -> decode_fixed_size_list(node, buffers, data_type)
      [] node.tag = "List" -> decode_list(node, buffers, data_type)
      [] node.tag = "Binary" -> decode_binary(node, buffers, data_type)
      [] node.tag = "Fsst" -> decode_fsst(node, buffers, data_type)
      [] node.tag = "Dictionary" -> decode_dictionary(node, buffers, data_type)
      [] node.tag = "FixedSizeBinary" ->
            decode_fixed_size_binary(node, buffers, data_type)
      [] node.tag = "PackedStruct" -> decoder_from_packed_struct(node, buffers, data_type)
      [] node.tag = "BitpackedForNonNeg" ->
            get_bitpacked_for_non_neg_buffer_decoder(node, buffers)
      [] node.tag = "Struct" -> Ok([scheduler |-> "BasicPageScheduler", mode |-> "All"])
      [] OTHER -> Panic("unreachable")

decoder_from_array_encoding(encoding, buffers, data_type) ==
    IF is_none(encoding.array_encoding) THEN Panic("unwrap on None") ELSE
    LET node == encoding.array_encoding[1] IN
    CASE node.tag = "Nullable" -> decode_nullable(node, buffers, data_type)
      [] node.tag = "Bitpacked" -> get_bitpacked_buffer_decoder(node, buffers)
      [] node.tag = "Flat" -> get_buffer_decoder(node, buffers)
      [] node.tag = "FixedSizeList" -> decode_fixed_size_list(node, buffers, data_type)
      [] node.tag = "List" -> decode_list(node, buffers, data_type)
      [] node.tag = "Binary" -> decode_binary(node, buffers, data_type)
      [] node.tag = "Fsst" -> decode_fsst(node, buffers, data_type)
      [] node.tag = "Dictionary" -> decode_dictionary(node, buffers, data_type)
      [] node.tag = "FixedSizeBinary" ->
            decode_fixed_size_binary(node, buffers, data_type)
      [] node.tag = "PackedStruct" -> decoder_from_packed_struct(node, buffers, data_type)
      [] node.tag = "BitpackedForNonNeg" ->
            get_bitpacked_for_non_neg_buffer_decoder(node, buffers)
      [] node.tag = "Struct" -> Panic("unreachable")
      [] OTHER -> Panic("unreachable")

(***************************************************************************)
(* FixedListScheduler: each logical row occupies `dimension` consecutive   *)
(* item rows.  A row range is [start, end).                                *)
(***************************************************************************)
RowRange(start, end) == [start |-> start, end |-> end]

\* the logical rows exposed over item_rows rows of the item strategy
FixedListScheduler_num_rows(fixed_list, item_rows) ==
    item_rows \div fixed_list.dimension

\* the request handed to the item strategy for a request of logical rows
FixedListScheduler_schedule_ranges(fixed_list, range) ==
    [delegate |-> fixed_list.items_scheduler,
     item_range |-> RowRange(range.start * fixed_list.dimension,
                             range.end * fixed_list.dimension)]

(***************************************************************************)
(* The protobuf messages of an encoding descriptor (format::pb).           *)
(***************************************************************************)
pb_Buffer(buffer_index, buffer_type) ==
    [buffer_index |-> buffer_index, buffer_type |-> buffer_type]
pb_Compression(scheme, level) == [scheme |-> scheme, level |-> level]
pb_ArrayEncoding(node) == [array_encoding |-> Some(node)]

pb_Flat(bits_per_value, buffer, compression) ==
    [tag |-> "Flat", bits_per_value |-> bits_per_value, buffer |-> buffer,
     compression |-> compression]
pb_Bitpacked(buffer) ==
    [tag |-> "Bitpacked", compressed_bits_per_value |-> 3,
     uncompressed_bits_per_value |-> 32, buffer |-> buffer, signed |-> TRUE]
pb_BitpackedForNonNeg(buffer) ==
    [tag |-> "BitpackedForNonNeg", compressed_bits_per_value |-> 5,
     uncompressed_bits_per_value |-> 64, buffer |-> buffer]
pb_Nullable(nullability) == [tag |-> "Nullable", nullability |-> nullability]
pb_NoNulls(values) == pb_Nullable(Some([tag |-> "NoNulls", values |-> values]))
pb_SomeNulls(validity, values) ==
    pb_Nullable(Some([tag |-> "SomeNulls", validity |-> validity, values |-> values]))
pb_AllNulls == pb_Nullable(Some([tag |-> "AllNulls"]))
pb_FixedSizeList(items, dimension) ==
    [tag |-> "FixedSizeList", items |-> items, dimension |-> dimension]
pb_List(offsets) == [tag |-> "List", offsets |-> offsets]
pb_Binary(indices, bytes, null_adjustment) ==
    [tag |-> "Binary", indices |-> indices, bytes |-> bytes,
     null_adjustment |-> null_adjustment]
pb_Fsst(binary, symbol_table) ==
    [tag |-> "Fsst", binary |-> binary, symbol_table |-> symbol_table]
pb_Dictionary(indices, items, num_dictionary_items) ==
    [tag |-> "Dictionary", indices |-> indices, items |-> items,
     num_dictionary_items |-> num_dictionary_items]
pb_FixedSizeBinary(bytes, byte_width) ==
    [tag |-> "FixedSizeBinary", bytes |-> bytes, byte_width |-> byte_width]
pb_PackedStruct(inner, buffer) ==
    [tag |-> "PackedStruct", inner |-> inner, buffer |-> buffer]
pb_Struct == [tag |-> "Struct"]
pb_Constant == [tag |-> "Constant"]      \* a node kind of format 2.1 only

(***************************************************************************)
(* The inputs explored.                                                    *)
(***************************************************************************)
BufferTypes == {BufferType_Page, BufferType_Column, BufferType_File}
\* index MaxTableLen is out of bounds of every table
BufferIndices == 0..MaxTableLen
BufferDescs == {pb_Buffer(i, t) : i \in BufferIndices, t \in BufferTypes}
\* 3 is no BufferType: BufferType::try_from fails on it
WireBufferDescs == {pb_Buffer(i, t) : i \in BufferIndices, t \in BufferTypes \cup {3}}
OptBuffers == {None} \cup {Some(b) : b \in BufferDescs}

SchemeNames == {"none", "zstd", "bogus"}
Levels == {None, Some(0), Some(3)}
Compressions ==
    {None} \cup {Some(pb_Compression(s, l)) : s \in SchemeNames, l \in Levels}
BitsPerValue == {0, 1, 4, 8, 17, 64}

FlatNodes ==
    {pb_Flat(b, buf, c) : b \in BitsPerValue, buf \in OptBuffers, c \in Compressions}

\* the leaves of the descriptor trees explored; the File reference of the
\* third one is out of bounds of every table
LeafNodes ==
    {pb_Flat(1, Some(pb_Buffer(0, BufferType_Page)), None),
     pb_Flat(8, Some(pb_Buffer(0, BufferType_Page)), None),
     pb_Flat(8, Some(pb_Buffer(MaxTableLen, BufferType_File)), None),
     pb_Bitpacked(Some(pb_Buffer(0, BufferType_Column))),
     pb_BitpackedForNonNeg(Some(pb_Buffer(0, BufferType_File))),
     pb_AllNulls, pb_Struct, pb_Constant}
LeafEncodings == {pb_ArrayEncoding(n) : n \in LeafNodes}

\* descriptors explored at the root only: every Flat node, and the nodes
\* that lack their buffer reference, their nullability or their kind
RootEncodings ==
    {pb_ArrayEncoding(n) :
        n \in FlatNodes \cup {pb_Bitpacked(None), pb_BitpackedForNonNeg(None),
                              pb_Nullable(None)}}
    \cup {[array_encoding |-> None]}

\* the sibling of the explored child in a node with two children
Sibling == pb_ArrayEncoding(pb_Flat(8, Some(pb_Buffer(0, BufferType_Page)), None))

PackedBuffers == {None, Some(pb_Buffer(0, BufferType_Page))}

\* the nodes with child c (an Option<ArrayEncoding>)
WrapNodes(c) ==
    {pb_NoNulls(c), pb_SomeNulls(c, Some(Sibling)), pb_SomeNulls(Some(Sibling), c),
     pb_FixedSizeList(c, 3), pb_List(c),
     pb_Binary(c, Some(Sibling), 1), pb_Binary(Some(Sibling), c, 1),
     pb_Fsst(c, <<7, 9>>),
     pb_Dictionary(c, Some(Sibling), 5), pb_Dictionary(Some(Sibling), c, 6),
     pb_FixedSizeBinary(c, 16)}
    \cup (IF is_none(c) THEN {pb_PackedStruct(<<>>, b) : b \in PackedBuffers}
          ELSE {pb_PackedStruct(inner, Some(pb_Buffer(0, BufferType_Page))) :
                    inner \in {<<c[1]>>, <<c[1], Sibling>>, <<Sibling, c[1]>>}}
               \cup {pb_PackedStruct(<<c[1]>>, None)})

RECURSIVE EncodingsOfDepth(_)
EncodingsOfDepth(d) ==
    IF d = 0 THEN LeafEncodings
    ELSE LET below == EncodingsOfDepth(d - 1) IN
         below \cup
         {pb_ArrayEncoding(n) :
            n \in UNION {WrapNodes(c) : c \in {None} \cup {Some(e) : e \in below}}}

\* descriptors explored at the root only: other values of the parameters a
\* node hands to its scheduler unchanged
ParameterEncodings ==
    {pb_ArrayEncoding(n) :
        n \in {pb_Binary(Some(Sibling), Some(Sibling), a) : a \in {0, 7}}
             \cup {pb_FixedSizeBinary(Some(Sibling), w) : w \in {1, 32}}
             \cup {pb_FixedSizeList(Some(Sibling), d) : d \in {1, 2}}}

ArrayEncodings ==
    EncodingsOfDepth(MaxDepth) \cup RootEncodings \cup ParameterEncodings

\* the i-th field of the struct types explored: the types alternate, so
\* that neighbouring fields differ in type
FieldNames == <<"f0", "f1", "f2", "f3">>
FieldAt(i) ==
    Field(FieldNames[i], IF i % 2 = 1 THEN DataType("Int32") ELSE DataType("LargeUtf8"))
StructTypes == {DataType_Struct([i \in 1..n |-> FieldAt(i)]) : n \in 0..MaxFields}
PrimitiveTypes ==
    {DataType(id) : id \in {"Int32", "Binary", "LargeBinary", "Utf8", "LargeUtf8"}}
DictionaryTypes ==
    {DataType_Dictionary(DataType("Int32"), DataType(v)) : v \in {"Utf8", "LargeUtf8"}}
DataTypes == PrimitiveTypes \cup DictionaryTypes \cup StructTypes

\* the FixedSizeList descriptors a row range is requested from: over items
\* that can be built, and over items whose buffer is out of bounds
Dimensions == {1, 2, 3}
FixedSizeListEncodings ==
    {pb_ArrayEncoding(pb_FixedSizeList(Some(pb_ArrayEncoding(items)), d)) :
        items \in {pb_Flat(8, Some(pb_Buffer(0, BufferType_Page)), None),
                   pb_Flat(8, Some(pb_Buffer(MaxTableLen, BufferType_File)), None)},
        d \in Dimensions}
ItemRows == 0..MaxItemRows

\* for the interpreter: all tables empty, or all of the longest length
EvenBufferTables == {PageBuffers(n, n, n) : n \in {0, MaxTableLen}}

(***************************************************************************)
(* The state machine: one invocation of one of the three functions.        *)
(***************************************************************************)
\* no thread is constructing, nothing is borrowed
NoInvocations ==
    /\ heap = [encodings |-> <<>>, buffers |-> <<>>, data_types |-> <<>>]
    /\ invocations = <<>>

\* no DatasetBuilder exists
NoBuilder ==
    /\ builder = [table_uri |-> ""]
    /\ loaded = [kind |-> "none"]
    /\ calls = <<>>
    /\ session_set = <<>>

\* no object store is wrapped
NoStores ==
    /\ active_requests = <<>>
    /\ stats = [num_hops |-> 0]
    /\ tasks = <<>>
    /\ issued = 0
    /\ periods = 0

\* no TestDatasetGenerator exists
NoGenerator ==
    /\ generator = [seed |-> <<>>]
    /\ streams = <<>>
    /\ runs = <<>>

\* no function of the decoder is being served
NoDecoderCall ==
    /\ call = NoCall
    /\ result = NoResult

Init ==
    /\ call = NoCall
    /\ result = NoResult
    /\ NoInvocations
    /\ NoBuilder
    /\ NoStores
    /\ NoGenerator

CallGetBuffer ==
    /\ call = NoCall
    /\ \E buffer_desc \in WireBufferDescs, buffers \in BufferTables :
        /\ call' = [fn |-> "get_buffer", buffer_desc |-> buffer_desc,
                    buffers |-> buffers]
        /\ result' = get_buffer(buffer_desc, buffers)
    /\ UNCHANGED outsideDecoder

CallGetBufferDecoder ==
    /\ call = NoCall
    /\ \E flat \in FlatNodes, buffers \in BufferTables :
        /\ call' = [fn |-> "get_buffer_decoder", flat |-> flat, buffers |-> buffers]
        /\ result' = get_buffer_decoder(flat, buffers)
    /\ UNCHANGED outsideDecoder

CallDecoderFromArrayEncoding ==
    /\ call = NoCall
    /\ \E encoding \in ArrayEncodings, buffers \in EvenBufferTables,
          data_type \in DataTypes :
        /\ call' = [fn |-> "decoder_from_array_encoding", encoding |-> encoding,
                    buffers |-> buffers, data_type |-> data_type]
        /\ result' = decoder_from_array_encoding(encoding, buffers, data_type)
    /\ UNCHANGED outsideDecoder

\* a FixedSizeList strategy is built and asked for a range of its rows
CallScheduleRanges ==
    /\ call = NoCall
    /\ \E encoding \in FixedSizeListEncodings, item_rows \in ItemRows :
        LET buffers == PageBuffers(MaxTableLen, MaxTableLen, MaxTableLen)
            data_type == DataType("Int32")
            built == decoder_from_array_encoding(encoding, buffers, data_type)
            rows == IF is_ok(built)
                    THEN FixedListScheduler_num_rows(built.value, item_rows) ELSE 0
        IN \E start \in 0..rows : \E end \in start..rows :
            /\ call' = [fn |-> "schedule_ranges", encoding |-> encoding,
                        buffers |-> buffers, data_type |-> data_type,
                        item_rows |-> item_rows, range |-> RowRange(start, end)]
            /\ result' =
                    IF is_panic(built) THEN built
                    ELSE Ok([num_rows |-> rows,
                             request |-> FixedListScheduler_schedule_ranges(
                                            built.value, RowRange(start, end))])
    /\ UNCHANGED outsideDecoder

Next ==
    \/ CallGetBuffer
    \/ CallGetBufferDecoder
    \/ CallDecoderFromArrayEncoding
    \/ CallScheduleRanges

Spec == Init /\ [][Next]_vars

(***************************************************************************)
(* Concurrent construction: every thread invokes                           *)
(* decoder_from_array_encoding on a descriptor, buffer tables and a        *)
(* logical type it borrows (&pb::ArrayEncoding, &PageBuffers, &DataType);  *)
(* threads may borrow the same objects.                                    *)
(***************************************************************************)
Threads == 1..MaxThreads

\* the objects that exist while the threads run
HeapObjects ==
    [encodings |->
        <<pb_ArrayEncoding(pb_Binary(Some(Sibling), Some(Sibling), 1)),
          pb_ArrayEncoding(pb_NoNulls(Some(pb_ArrayEncoding(
                pb_Flat(1, Some(pb_Buffer(1, BufferType_Column)), None))))),
          pb_ArrayEncoding(pb_FixedSizeBinary(Some(Sibling), 16))>>,
     buffers |-> <<PageBuffers(MaxTableLen, MaxTableLen, MaxTableLen),
                   PageBuffers(0, 0, 0)>>,
     data_types |-> <<DataType("Int32"), DataType("LargeUtf8")>>]

Idle == [pc |-> "idle"]

\* the arguments of the invocation of thread t, read through its borrows
borrowed(t) ==
    [encoding |-> heap.encodings[invocations[t].encoding],
     buffers |-> heap.buffers[invocations[t].buffers],
     data_type |-> heap.data_types[invocations[t].data_type]]

ConcurrentInit ==
    /\ NoDecoderCall
    /\ NoBuilder
    /\ NoStores
    /\ NoGenerator
    /\ heap = HeapObjects
    /\ invocations = [t \in Threads |-> Idle]

\* thread t calls decoder_from_array_encoding; given is what the arguments
\* are at the call
Invoke(t) ==
    /\ invocations[t].pc = "idle"
    /\ \E e \in DOMAIN heap.encodings, b \in DOMAIN heap.buffers,
          d \in DOMAIN heap.data_types :
        invocations' =
            [invocations EXCEPT ![t] =
                [pc |-> "running", encoding |-> e, buffers |-> b, data_type |-> d,
                 given |-> [encoding |-> heap.encodings[e],
                            buffers |-> heap.buffers[b],
                            data_type |-> heap.data_types[d]]]]
    /\ UNCHANGED <<heap, outsideConcurrent>>

\* the invocation of thread t returns, or panics
Return(t) ==
    /\ invocations[t].pc = "running"
    /\ LET arguments == borrowed(t) IN
       invocations' =
            [invocations EXCEPT ![t] =
                [pc |-> "returned", given |-> invocations[t].given,
                 returned |-> decoder_from_array_encoding(
                                arguments.encoding, arguments.buffers,
                                arguments.data_type)]]
    /\ UNCHANGED <<heap, outsideConcurrent>>

\* thread t drops the scheduler it got
Release(t) ==
    /\ invocations[t].pc = "returned"
    /\ invocations' = [invocations EXCEPT ![t] = Idle]
    /\ UNCHANGED <<heap, outsideConcurrent>>

ConcurrentNext ==
    \E t \in Threads :
        \/ Invoke(t)
        \/ Return(t)
        \/ Release(t)

SpecConcurrent == ConcurrentInit /\ [][ConcurrentNext]_vars

(***************************************************************************)
(* DatasetBuilder (dataset/builder.rs), as far as the session load goes on *)
(* with depends on it: the two cache sizes, the session, and the options   *)
(* and commit handler that with_read_params and with_write_params set      *)
(* along with them.  Cache sizes are counted in MiB.  An Arc<Session>, an  *)
(* ObjectStoreParams and an Arc<dyn CommitHandler> are named by a number.  *)
(***************************************************************************)
DEFAULT_INDEX_CACHE_SIZE == 6 * 1024
DEFAULT_METADATA_CACHE_SIZE == 1 * 1024

\* ObjectStoreParams::default(): the fields the builder's methods write
\* (the refresh offset in seconds; a map is the set of its entries)
ObjectStoreParams_default ==
    [block_size |-> None,
     object_store |-> None,
     s3_credentials_refresh_offset |-> 60,
     aws_credentials |-> None,
     storage_options |-> None]

from_uri(table_uri) ==
    [index_cache_size_bytes |-> DEFAULT_INDEX_CACHE_SIZE,
     metadata_cache_size_bytes |-> DEFAULT_METADATA_CACHE_SIZE,
     table_uri |-> table_uri,
     options |-> ObjectStoreParams_default,
     commit_handler |-> None,
     session |-> None]

with_index_cache_size_bytes(self, cache_size) ==
    [self EXCEPT !.index_cache_size_bytes = cache_size]

with_index_cache_size(self, cache_size) ==
    LET assumed_entry_size == 20 IN
    [self EXCEPT !.index_cache_size_bytes = cache_size * assumed_entry_size]

with_metadata_cache_size_bytes(self, cache_size) ==
    [self EXCEPT !.metadata_cache_size_bytes = cache_size]

with_metadata_cache_size(self, cache_size) ==
    LET assumed_entry_size == 4 IN
    [self EXCEPT !.metadata_cache_size_bytes = cache_size * assumed_entry_size]

with_block_size(self, block_size) ==
    [self EXCEPT !.options.block_size = Some(block_size)]

with_commit_handler(self, commit_handler) ==
    [self EXCEPT !.commit_handler = Some(commit_handler)]

with_s3_credentials_refresh_offset(self, offset) ==
    [self EXCEPT !.options.s3_credentials_refresh_offset = offset]

with_aws_credentials_provider(self, credentials) ==
    [self EXCEPT !.options.aws_credentials = Some(credentials)]

with_object_store(self, object_store, location, commit_handler) ==
    [self EXCEPT !.options.object_store =
                        Some([store |-> object_store, location |-> location]),
                 !.commit_handler = Some(commit_handler)]

with_storage_options(self, storage_options) ==
    [self EXCEPT !.options.storage_options = Some(storage_options)]

\* HashMap::insert: the entry of the key is replaced
with_storage_option(self, key, value) ==
    LET storage_options ==
            IF is_some(self.options.storage_options)
            THEN self.options.storage_options[1] ELSE {}
        inserted == {entry \in storage_options : entry.key # key}
                        \cup {[key |-> key, value |-> value]}
    IN [self EXCEPT !.options.storage_options = Some(inserted)]

with_read_params(self, read_params) ==
    LET sized == with_metadata_cache_size_bytes(
                    with_index_cache_size_bytes(self, read_params.index_cache_size_bytes),
                    read_params.metadata_cache_size_bytes)
    IN [sized EXCEPT
            !.options = IF is_some(read_params.store_options)
                        THEN read_params.store_options[1] ELSE @,
            !.session = IF is_some(read_params.session)
                        THEN read_params.session ELSE @,
            !.commit_handler = IF is_some(read_params.commit_handler)
                               THEN read_params.commit_handler ELSE @]

with_write_params(self, write_params) ==
    [self EXCEPT
        !.options = IF is_some(write_params.store_params)
                    THEN write_params.store_params[1] ELSE @,
        !.commit_handler = IF is_some(write_params.commit_handler)
                           THEN write_params.commit_handler ELSE @]

with_session(self, session) == [self EXCEPT !.session = Some(session)]

\* Session::new(index_cache_size_bytes, metadata_cache_size_bytes, ..)
Session_new(index_cache_size_bytes, metadata_cache_size_bytes) ==
    [kind |-> "new", index_cache_size_bytes |-> index_cache_size_bytes,
     metadata_cache_size_bytes |-> metadata_cache_size_bytes]

\* a session that existed before load
SharedSession(session) == [kind |-> "shared", session |-> session]

\* `let session = match self.session.as_ref()` of load, creating a session
\* of its own when a cache size is not the default (a fault C18 excludes)
load_session_sized(self) ==
    IF is_some(self.session)
        /\ self.index_cache_size_bytes = DEFAULT_INDEX_CACHE_SIZE
        /\ self.metadata_cache_size_bytes = DEFAULT_METADATA_CACHE_SIZE
    THEN SharedSession(self.session[1])
    ELSE Session_new(self.index_cache_size_bytes, self.metadata_cache_size_bytes)

\* `let session = match self.session.as_ref()` of load
load_session(self) ==
    IF is_some(self.session) THEN SharedSession(self.session[1])
    ELSE Session_new(self.index_cache_size_bytes, self.metadata_cache_size_bytes)

\* the arguments explored
CacheSizes == {0, 2}
Sessions == {1, 2}
CommitHandlers == {1}
StoreOptions == {[ObjectStoreParams_default EXCEPT !.block_size = Some(512)]}
BlockSizes == {4096}
StorageOptionMaps == {{}, {[key |-> "region", value |-> "y"]}}
StorageOptionKeys == {"region", "timeout"}
OptionOf(S) == {None} \cup {Some(x) : x \in S}
ReadParamsSet ==
    [index_cache_size_bytes : CacheSizes, metadata_cache_size_bytes : CacheSizes,
     store_options : OptionOf(StoreOptions), session : OptionOf(Sessions),
     commit_handler : OptionOf(CommitHandlers)]
WriteParamsSet ==
    [store_params : OptionOf(StoreOptions), commit_handler : OptionOf(CommitHandlers)]

BuilderInit ==
    /\ NoDecoderCall
    /\ NoInvocations
    /\ NoStores
    /\ NoGenerator
    /\ builder = from_uri("memory://dataset")
    /\ loaded = [kind |-> "none"]
    /\ calls = <<>>
    /\ session_set = None

\* the builder exists and takes another call
Building == loaded.kind = "none" /\ Len(calls) < MaxCalls

\* a method that sets no session: name it and apply it
Called(method, next_builder) ==
    /\ builder' = next_builder
    /\ calls' = Append(calls, method)
    /\ UNCHANGED <<loaded, session_set, outsideBuilder>>

WithIndexCacheSizeBytes ==
    /\ Building
    /\ \E cache_size \in CacheSizes :
        Called("with_index_cache_size_bytes",
               with_index_cache_size_bytes(builder, cache_size))

WithIndexCacheSize ==
    /\ Building
    /\ \E cache_size \in CacheSizes :
        Called("with_index_cache_size", with_index_cache_size(builder, cache_size))

WithMetadataCacheSizeBytes ==
    /\ Building
    /\ \E cache_size \in CacheSizes :
        Called("with_metadata_cache_size_bytes",
               with_metadata_cache_size_bytes(builder, cache_size))

WithMetadataCacheSize ==
    /\ Building
    /\ \E cache_size \in CacheSizes :
        Called("with_metadata_cache_size",
               with_metadata_cache_size(builder, cache_size))

WithBlockSize ==
    /\ Building
    /\ \E block_size \in BlockSizes :
        Called("with_block_size", with_block_size(builder, block_size))

WithCommitHandler ==
    /\ Building
    /\ \E commit_handler \in CommitHandlers :
        Called("with_commit_handler", with_commit_handler(builder, commit_handler))

WithS3CredentialsRefreshOffset ==
    /\ Building
    /\ \E offset \in {30} :
        Called("with_s3_credentials_refresh_offset",
               with_s3_credentials_refresh_offset(builder, offset))

WithAwsCredentialsProvider ==
    /\ Building
    /\ \E credentials \in {"provider"} :
        Called("with_aws_credentials_provider",
               with_aws_credentials_provider(builder, credentials))

WithObjectStore ==
    /\ Building
    /\ \E commit_handler \in CommitHandlers :
        Called("with_object_store",
               with_object_store(builder, "store", "file:///x", commit_handler))

WithStorageOptions ==
    /\ Building
    /\ \E storage_options \in StorageOptionMaps :
        Called("with_storage_options",
               with_storage_options(builder, storage_options))

WithStorageOption ==
    /\ Building
    /\ \E key \in StorageOptionKeys :
        Called("with_storage_option", with_storage_option(builder, key, "x"))

WithWriteParams ==
    /\ Building
    /\ \E write_params \in WriteParamsSet :
        Called("with_write_params", with_write_params(builder, write_params))

WithReadParams ==
    /\ Building
    /\ \E read_params \in ReadParamsSet :
        /\ builder' = with_read_params(builder, read_params)
        /\ calls' = Append(calls, "with_read_params")
        /\ session_set' = IF is_some(read_params.session)
                          THEN read_params.session ELSE session_set
    /\ UNCHANGED <<loaded, outsideBuilder>>

WithSession ==
    /\ Building
    /\ \E session \in Sessions :
        /\ builder' = with_session(builder, session)
        /\ calls' = Append(calls, "with_session")
        /\ session_set' = Some(session)
    /\ UNCHANGED <<loaded, outsideBuilder>>

\* load, up to the session it goes on with
Load ==
    /\ loaded.kind = "none"
    /\ loaded' = load_session(builder)
    /\ calls' = Append(calls, "load")
    /\ UNCHANGED <<builder, session_set, outsideBuilder>>

BuilderNext ==
    \/ WithIndexCacheSizeBytes
    \/ WithIndexCacheSize
    \/ WithMetadataCacheSizeBytes
    \/ WithMetadataCacheSize
    \/ WithBlockSize
    \/ WithCommitHandler
    \/ WithS3CredentialsRefreshOffset
    \/ WithAwsCredentialsProvider
    \/ WithObjectStore
    \/ WithStorageOptions
    \/ WithStorageOption
    \/ WithWriteParams
    \/ WithReadParams
    \/ WithSession
    \/ Load

SpecBuilder == BuilderInit /\ [][BuilderNext]_vars

(***************************************************************************)
(* IoTrackingStore, StatsHolder and HopGuard (utils/test.rs): object       *)
(* stores wrapped by one StatsHolder record into one IoStats; each store   *)
(* counts its live HopGuards in an AtomicU16 of its own.  A task issues    *)
(* one request at a time; the statements of a store method between two     *)
(* points where another task can run are one step.                         *)
(***************************************************************************)
\* IoStats::default()
IoStats_default ==
    [read_iops |-> 0, read_bytes |-> 0, write_iops |-> 0, write_bytes |-> 0,
     num_hops |-> 0, requests |-> <<>>]

\* the stores StatsHolder::wrap has made, and the tasks that use them
Stores == {1, 2}
Tasks == {1, 2}

\* the methods of `impl ObjectStore for IoTrackingStore`
Methods ==
    {"put", "put_opts", "put_multipart", "put_multipart_opts",
     "get", "get_opts", "get_range", "get_ranges", "head",
     "delete", "delete_stream", "list", "list_with_offset",
     "list_with_delimiter", "copy", "rename", "rename_if_not_exists",
     "copy_if_not_exists"}

\* the methods that start with `let _guard = self.hop_guard()`
Guarded == Methods \ {"list_with_offset", "delete_stream"}

\* content_length of a payload, length of an object, length of a range
\* asked for
PayloadLength == 3
ObjectLength == 7
RangeLength == 4

\* IoTrackingStore::record_read without the `stats.requests.push(..)` (a
\* fault C27 excludes)
record_read_unlisted(io_stats, method, num_bytes) ==
    [io_stats EXCEPT !.read_iops = @ + 1,
                     !.read_bytes = @ + num_bytes]

\* IoTrackingStore::record_read
record_read(io_stats, method, num_bytes) ==
    [io_stats EXCEPT !.read_iops = @ + 1,
                     !.read_bytes = @ + num_bytes,
                     !.requests = Append(@, [method |-> method])]

\* IoTrackingStore::record_write
record_write(io_stats, num_bytes) ==
    [io_stats EXCEPT !.write_iops = @ + 1, !.write_bytes = @ + num_bytes]

\* the bytes a read method reports to record_read: the length of the range
\* of the result (get, get_opts), of the bytes (get_range), of all the
\* bytes of two ranges (get_ranges), or 0
num_bytes_read(method) ==
    CASE method = "get" -> ObjectLength
      [] method \in {"get_opts", "get_range"} -> RangeLength
      [] method = "get_ranges" -> RangeLength + RangeLength
      [] OTHER -> 0

\* the bytes a write method reports to record_write
num_bytes_written(method) ==
    IF method \in {"put", "put_opts"} THEN PayloadLength ELSE 0

\* what a method does after it has made its guard (after its entry, for a
\* method without guard)
first_statement(method) ==
    CASE method \in {"put", "put_opts", "delete", "copy", "rename",
                      "rename_if_not_exists", "copy_if_not_exists"} -> "record_write"
      [] method \in {"get", "get_opts", "get_range", "get_ranges",
                      "put_multipart", "put_multipart_opts"} -> "await"
      [] method \in {"head", "list", "list_with_offset",
                      "list_with_delimiter"} -> "record_read"
      [] method = "delete_stream" -> "return"

\* what a method does after record_read
after_record_read(method) ==
    CASE method \in {"head", "list_with_delimiter"} -> "await"
      [] method \in {"get", "get_opts", "get_range", "get_ranges", "list"} -> "drop"
      [] method = "list_with_offset" -> "return"

\* what a method does once the wrapped store has answered
after_await(method, ok) ==
    CASE method \in {"get", "get_opts", "get_range", "get_ranges"} ->
                IF ok THEN "record_read" ELSE "drop"
      [] method \in {"put_multipart", "put_multipart_opts"} ->
                IF ok THEN "upload" ELSE "drop"
      [] OTHER -> "drop"

IdleTask == [pc |-> "idle"]

\* the request of the task occupies the store: from the call to the end of
\* the scope of its guard, or to its return if the method has no guard
InFlight(task) ==
    /\ task.pc # "idle"
    /\ ~(task.method \in Guarded /\ task.pc \in {"add_hop", "return"})

\* the tasks other than t with a request in flight
OthersInFlight(t) == {u \in Tasks \ {t} : InFlight(tasks[u])}

\* the count of ended periods when the request of t stops being in flight
PeriodsAfter(t) == IF OthersInFlight(t) = {} THEN periods + 1 ELSE periods

IoInit ==
    /\ NoDecoderCall
    /\ NoInvocations
    /\ NoBuilder
    /\ NoGenerator
    /\ active_requests = [store \in Stores |-> 0]
    /\ stats = IoStats_default
    /\ tasks = [t \in Tasks |-> IdleTask]
    /\ issued = 0
    /\ periods = 0

\* task t calls a method of a store; HopGuard::new counts the guard in
CallStore(t) ==
    /\ tasks[t].pc = "idle"
    /\ issued < MaxRequests
    /\ \E store \in Stores, method \in Methods :
        /\ tasks' = [tasks EXCEPT ![t] =
                        [pc |-> first_statement(method), store |-> store,
                         method |-> method]]
        /\ active_requests' =
                IF method \in Guarded
                THEN [active_requests EXCEPT ![store] = (@ + 1) % 65536]
                ELSE active_requests
    /\ issued' = issued + 1
    /\ UNCHANGED <<stats, periods, outsideIo>>

RecordRead(t) ==
    /\ tasks[t].pc = "record_read"
    /\ stats' = record_read(stats, tasks[t].method, num_bytes_read(tasks[t].method))
    /\ tasks' = [tasks EXCEPT ![t].pc = after_record_read(tasks[t].method)]
    /\ UNCHANGED <<active_requests, issued, periods, outsideIo>>

RecordWrite(t) ==
    /\ tasks[t].pc = "record_write"
    /\ stats' = record_write(stats, num_bytes_written(tasks[t].method))
    /\ tasks' = [tasks EXCEPT ![t].pc = "await"]
    /\ UNCHANGED <<active_requests, issued, periods, outsideIo>>

\* the wrapped store answers, with Ok or with Err
TargetAnswers(t) ==
    /\ tasks[t].pc = "await"
    /\ \E ok \in BOOLEAN :
        tasks' = [tasks EXCEPT ![t].pc = after_await(tasks[t].method, ok)]
    /\ UNCHANGED <<active_requests, stats, issued, periods, outsideIo>>

\* IoTrackingMultipartUpload::put_part
PutPart(t) ==
    /\ tasks[t].pc = "upload"
    /\ issued < MaxRequests
    /\ stats' = record_write(stats, PayloadLength)
    /\ issued' = issued + 1
    /\ UNCHANGED <<active_requests, tasks, periods, outsideIo>>

\* HopGuard::drop, up to the fetch_sub: at the end of the method, or when
\* the multipart upload that holds the guard is dropped
DropGuard(t) ==
    /\ tasks[t].pc \in {"drop", "upload"}
    /\ LET store == tasks[t].store
           previous == active_requests[store]
       IN /\ active_requests' =
                [active_requests EXCEPT ![store] = (@ + 65535) % 65536]
          /\ tasks' = [tasks EXCEPT ![t].pc =
                            IF previous = 1 THEN "add_hop" ELSE "return"]
    /\ periods' = PeriodsAfter(t)
    /\ UNCHANGED <<stats, issued, outsideIo>>

\* HopGuard::drop, the branch taken when fetch_sub returned 1
AddHop(t) ==
    /\ tasks[t].pc = "add_hop"
    /\ stats' = [stats EXCEPT !.num_hops = @ + 1]
    /\ tasks' = [tasks EXCEPT ![t].pc = "return"]
    /\ UNCHANGED <<active_requests, issued, periods, outsideIo>>

\* the method returns to the task
Returns(t) ==
    /\ tasks[t].pc = "return"
    /\ periods' = IF InFlight(tasks[t]) THEN PeriodsAfter(t) ELSE periods
    /\ tasks' = [tasks EXCEPT ![t] = IdleTask]
    /\ UNCHANGED <<active_requests, stats, issued, outsideIo>>

\* StatsHolder::incremental_stats
IncrementalStats ==
    /\ stats' = IoStats_default
    /\ periods' = 0
    /\ UNCHANGED <<active_requests, tasks, issued, outsideIo>>

IoNext ==
    \/ \E t \in Tasks :
        \/ CallStore(t)
        \/ RecordRead(t)
        \/ RecordWrite(t)
        \/ TargetAnswers(t)
        \/ PutPart(t)
        \/ DropGuard(t)
        \/ AddHop(t)
        \/ Returns(t)
    \/ IncrementalStats

SpecIo == IoInit /\ [][IoNext]_vars

(***************************************************************************)
(* TestDatasetGenerator (utils/test.rs): make_hostile, make_schema and     *)
(* make_fragment.  The arrow schema of the data is the sequence of its     *)
(* top-level columns, each given by the number of fields of its subtree    *)
(* (1: a leaf, 2: a struct of one leaf, ...).  A schema is the sequence of *)
(* its fields in pre-order, each with its id and the top-level column it   *)
(* belongs to.  A random generator is the stream of the numbers it gives:  *)
(* a generator seeded with the same seed gives the same stream.            *)
(***************************************************************************)
RECURSIVE Factorial(_)
Factorial(n) == IF n <= 1 THEN 1 ELSE n * Factorial(n - 1)

\* the arrow schemas of the data explored: those of at most three fields
ArrowSchemas == {<<1>>, <<2>>, <<1, 1>>, <<3>>, <<1, 2>>, <<2, 1>>, <<1, 1, 1>>}

\* the schema of test_make_schema and test_make_fragment: a, b{f1, f2}, c
TestSchema == <<1, 3, 1>>

\* the data explored: 1..MaxBatches batches of the schemas of one or two
\* columns, one batch of the schemas of three columns
DataSets ==
    {data \in [columns : ArrowSchemas \cup {TestSchema}, batches : 1..MaxBatches] :
        Len(data.columns) > 2 => data.batches = 1}

\* the generators explored: TestDatasetGenerator::new(data, ..) with or
\* without .seed(1); an unseeded one is explored with one batch of a
\* schema of one or two columns only
Generators ==
    {gen \in [data : DataSets, seed : {None, Some(1)}] :
        gen.seed = None => (gen.data.batches = 1 /\ Len(gen.data.columns) <= 2)}

RECURSIVE PreOrderColumns(_, _)
\* the top-level column of every field, in pre-order, from column c on
PreOrderColumns(columns, c) ==
    IF c > Len(columns) THEN <<>>
    ELSE [i \in 1..columns[c] |-> c] \o PreOrderColumns(columns, c + 1)

\* Schema::try_from(arrow_schema): ids count the fields in pre-order from 0
Schema_try_from(columns) ==
    LET column_of == PreOrderColumns(columns, 1) IN
    [i \in 1..Len(column_of) |-> [id |-> i - 1, column |-> column_of[i]]]

\* schema.fields_pre_order().map(|f| f.id).collect()
fields_pre_order_ids(schema) == [i \in DOMAIN schema |-> schema[i].id]

\* `for id in new_ids.iter_mut().skip(hole_pos) { *id += 1 }`
add_hole(new_ids, hole_pos) ==
    [i \in DOMAIN new_ids |-> IF i - 1 >= hole_pos THEN new_ids[i] + 1 ELSE new_ids[i]]

\* slice.swap(a, b), indices from 0
swap(slice, a, b) ==
    [slice EXCEPT ![a + 1] = slice[b + 1], ![b + 1] = slice[a + 1]]

RECURSIVE shuffle_from(_, _, _)
\* SliceRandom::shuffle: for i from len - 1 down to 1, swap slot i with a
\* random slot of 0..=i; the random slots are the digits of number
shuffle_from(slice, i, number) ==
    IF i < 1 THEN slice
    ELSE shuffle_from(swap(slice, i, number % (i + 1)), i - 1, number \div (i + 1))

shuffle(slice, number) == shuffle_from(slice, Len(slice) - 1, number)

\* Schema::mut_field_by_id: the first field in pre-order with the id (its
\* position; 0 if there is none)
mut_field_by_id(schema, id) ==
    LET found == {i \in DOMAIN schema : schema[i].id = id} IN
    IF found = {} THEN 0 ELSE CHOOSE i \in found : \A j \in found : i <= j

RECURSIVE set_field_ids(_, _, _, _)
\* `for (old_id, new_id) in field_ids.iter().zip(new_ids.iter())` of
\* make_schema, from the i-th pair on
set_field_ids(schema, field_ids, new_ids, i) ==
    IF i > Len(field_ids) THEN Ok(schema) ELSE
    LET field == mut_field_by_id(schema, field_ids[i]) IN
    IF field = 0 THEN Panic("unwrap on None") ELSE
    set_field_ids([schema EXCEPT ![field].id = new_ids[i]], field_ids, new_ids, i + 1)

\* `let seed = self.seed.unwrap_or_else(|| rand::thread_rng().gen())`
make_hostile_seed(seed, random) == IF is_some(seed) THEN seed[1] ELSE random

\* `let min_num_files = if self.data.len() > 1 { 1 } else { 2 }`
min_num_files_of(data) == IF data.batches > 1 THEN 1 ELSE 2

\* (0..num_files).cycle().take(column_names.len())
cycled_assignments(num_files, num_columns) ==
    [c \in 1..num_columns |-> (c - 1) % num_files]

\* the ids of the fields of the columns assigned to file_id, in the order
\* of the schema: schema.project(&columns), written as one data file
file_fields(schema, file_assignments, file_id) ==
    LET in_file(field) == file_assignments[field.column] = file_id IN
    fields_pre_order_ids(SelectSeq(schema, in_file))

RECURSIVE Concat(_)
Concat(lists) == IF lists = <<>> THEN <<>> ELSE Head(lists) \o Concat(Tail(lists))

\* make_fragment from the shuffled file assignments on, without the swap
\* of the first two files (a fault C24 excludes)
make_fragment_files_unswapped(schema, file_assignments, num_files) ==
    [f \in 1..num_files |->
        [fields |-> file_fields(schema, file_assignments, f - 1)]]

\* make_fragment from the shuffled file assignments on: the files of the
\* fragment, the first two swapped if their fields read like the schema
make_fragment_files(schema, file_assignments, num_files) ==
    LET files == [f \in 1..num_files |->
                    [fields |-> file_fields(schema, file_assignments, f - 1)]]
        schema_field_ids == fields_pre_order_ids(schema)
    IN IF Concat([f \in 1..num_files |-> files[f].fields]) = schema_field_ids
          /\ Len(files) > 1
       THEN swap(files, 0, 1)
       ELSE files

\* field_structure(fragment)
field_structure(fragment) ==
    [f \in DOMAIN fragment.files |-> fragment.files[f].fields]

\* the test of make_hostile on a new fragment, never asking for another
\* try (a fault C21 excludes)
same_layout_as_first_accepted(fragments, fields, num_top_level_fields) == FALSE

\* the test of make_hostile on a new fragment, without the exception for a
\* schema of one field (a fault C26 excludes)
same_layout_as_first_strict(fragments, fields, num_top_level_fields) ==
    /\ fragments # <<>>
    /\ fields = field_structure(fragments[1])

\* `if let Some(first_fields) = first_fields { if fields == first_fields
\* && schema.fields.len() > 1 { continue; } }`: the fragment is made again
same_layout_as_first(fragments, fields, num_top_level_fields) ==
    /\ fragments # <<>>
    /\ fields = field_structure(fragments[1])
    /\ num_top_level_fields > 1

Seeds == {1, 2}
Runs == {1, 2}

\* the seed of a random generator whose numbers no other call reads
Unrecorded == 0

\* the seeds `rand::thread_rng().gen()` may give: those whose streams are
\* kept, if any are
thread_rng_seeds == IF DOMAIN streams = {} THEN {Unrecorded} ELSE DOMAIN streams

\* the position in the stream after one more number
next_pos(run) == IF run.seed \in DOMAIN streams THEN run.pos + 1 ELSE run.pos

\* a call of make_hostile that has not begun
NotStarted ==
    [pc |-> "start", seed |-> 0, pos |-> 0, field_ids |-> <<>>, new_ids |-> <<>>,
     schema |-> <<>>, num_files |-> 0, file_assignments |-> <<>>, written |-> 0,
     fragments |-> <<>>, id |-> 0]

\* a call that panicked: the unwinding dropped its locals
Panicked == [NotStarted EXCEPT !.pc = "panicked"]

HostileInit ==
    /\ NoDecoderCall
    /\ NoInvocations
    /\ NoBuilder
    /\ NoStores
    /\ generator \in Generators
    /\ streams = [seed \in Seeds |-> <<>>]
    /\ runs = [g \in Runs |-> NotStarted]

\* SmallRng::seed_from_u64(seed) giving other numbers to a second generator
\* of the same seed (a fault C20 excludes)
gen_range_unrepeatable(stream, pos, range) == (stream[pos + 1] + 1) % range

\* `rng.gen_range(..)` and the draws of `shuffle(&mut rng)` on a generator
\* whose seed gave the stream before: the number at its position, brought
\* into the range
gen_range(stream, pos, range) == stream[pos + 1] % range

\* run g takes the next number below range from its random generator:
\* the number its stream holds at the position of the run, or a new one
Draws(g, range, number) ==
    LET stream == IF runs[g].seed \in DOMAIN streams THEN streams[runs[g].seed] ELSE <<>>
        pos == runs[g].pos
    IN /\ number \in 0..(range - 1)
       /\ CASE runs[g].seed \notin DOMAIN streams -> streams' = streams
            [] runs[g].seed \in DOMAIN streams /\ pos < Len(stream) ->
                    /\ number = gen_range(stream, pos, range)
                    /\ streams' = streams
            [] OTHER ->
                    /\ Len(stream) < MaxDraws
                    /\ streams' = [streams EXCEPT ![runs[g].seed] = Append(stream, number)]

\* where make_fragment begins: it draws num_files unless there is one column
EnterMakeFragment(columns) == IF Len(columns) = 1 THEN "shuffle_files" ELSE "num_files"

\* make_hostile up to the shuffle of make_schema: the seed, the schema of
\* the data and its field ids
StartMakeHostile(g) ==
    /\ runs[g].pc = "start"
    /\ \E random \in thread_rng_seeds :
        LET schema == Schema_try_from(generator.data.columns)
            field_ids == fields_pre_order_ids(schema)
        IN runs' = [runs EXCEPT ![g] =
                    [@ EXCEPT !.pc = IF Len(field_ids) > 2 THEN "hole" ELSE "shuffle_ids",
                              !.seed = make_hostile_seed(generator.seed, random),
                              !.field_ids = field_ids,
                              !.new_ids = field_ids,
                              !.schema = schema]]
    /\ UNCHANGED <<generator, streams, outsideHostile>>

\* make_schema: `let hole_pos = rng.gen_range(1..new_ids.len() - 1)`
AddHole(g) ==
    /\ runs[g].pc = "hole"
    /\ \E number \in 0..(Len(runs[g].new_ids) - 3) :
        /\ Draws(g, Len(runs[g].new_ids) - 2, number)
        /\ runs' = [runs EXCEPT ![g] =
                    [@ EXCEPT !.pc = "shuffle_ids",
                              !.pos = next_pos(runs[g]),
                              !.new_ids = add_hole(runs[g].new_ids, 1 + number)]]
    /\ UNCHANGED <<generator, outsideHostile>>

\* make_schema: one round of the loop that shuffles new_ids, and on its
\* break the ids set in the schema and make_hostile up to make_fragment
ShuffleIds(g) ==
    /\ runs[g].pc = "shuffle_ids"
    /\ \E number \in 0..(Factorial(Len(runs[g].new_ids)) - 1) :
        /\ Draws(g, Factorial(Len(runs[g].new_ids)), number)
        /\ LET new_ids == shuffle(runs[g].new_ids, number)
               field_ids == runs[g].field_ids
               schema == set_field_ids(runs[g].schema, field_ids, new_ids, 1)
           IN runs' = [runs EXCEPT ![g] =
                CASE ~(Len(new_ids) = 1 \/ new_ids # field_ids) ->
                        [@ EXCEPT !.pos = next_pos(runs[g]), !.new_ids = new_ids]
                  [] (Len(new_ids) = 1 \/ new_ids # field_ids) /\ is_panic(schema) ->
                        [@ EXCEPT !.pc = "panicked", !.pos = next_pos(runs[g]),
                                  !.new_ids = new_ids]
                  [] OTHER ->
                        [@ EXCEPT !.pc = EnterMakeFragment(generator.data.columns),
                                  !.pos = next_pos(runs[g]),
                                  !.new_ids = new_ids,
                                  !.schema = schema.value,
                                  !.num_files = 1]]
    /\ UNCHANGED <<generator, outsideHostile>>

\* make_fragment: `rng.gen_range(min_num_files..=batch.num_columns())`
ChooseNumFiles(g) ==
    /\ runs[g].pc = "num_files"
    /\ LET min_num_files == min_num_files_of(generator.data)
           num_columns == Len(generator.data.columns)
       IN \E number \in 0..(num_columns - min_num_files) :
            /\ Draws(g, num_columns - min_num_files + 1, number)
            /\ runs' = [runs EXCEPT ![g] =
                        [@ EXCEPT !.pc = "shuffle_files",
                                  !.pos = next_pos(runs[g]),
                                  !.num_files = min_num_files + number]]
    /\ UNCHANGED <<generator, outsideHostile>>

\* make_fragment: `file_assignments.shuffle(rng)`, up to the await of the
\* write of the first file
ShuffleFiles(g) ==
    /\ runs[g].pc = "shuffle_files"
    /\ LET num_columns == Len(generator.data.columns) IN
       \E number \in 0..(Factorial(num_columns) - 1) :
        /\ Draws(g, Factorial(num_columns), number)
        /\ runs' = [runs EXCEPT ![g] =
                    [@ EXCEPT !.pc = "write",
                              !.pos = next_pos(runs[g]),
                              !.file_assignments =
                                    shuffle(cycled_assignments(runs[g].num_files,
                                                               num_columns), number),
                              !.written = 0]]
    /\ UNCHANGED <<generator, outsideHostile>>

\* make_fragment after its files are written: `Fragment { id: 0, files,
\* .. }`, the first two files swapped where the code does
fragment_of(run) ==
    [id |-> 0,
     files |-> make_fragment_files(run.schema, run.file_assignments, run.num_files)]

\* the test of the loop of make_hostile on the fragment of the run
retried(run, num_columns) ==
    same_layout_as_first(run.fragments, field_structure(fragment_of(run)), num_columns)

\* make_fragment: `FragmentCreateBuilder::new(uri)...write(reader, None)
\* .await.unwrap()` of one file answers.  An Err panics.  After the Ok of
\* the last file the files are combined and the round of the loop of
\* make_hostile ends: the fragment is made again if it is laid out like
\* the first one, else it gets its id.
WriteFile(g) ==
    /\ runs[g].pc = "write"
    /\ \E ok \in BOOLEAN :
        LET run == runs[g]
            num_columns == Len(generator.data.columns)
            fragment == fragment_of(run)
            again == retried(run, num_columns)
            fragments == Append(run.fragments, [fragment EXCEPT !.id = run.id])
        IN runs' = [runs EXCEPT ![g] =
            CASE ~ok -> Panicked
              [] ok /\ run.written + 1 < run.num_files ->
                    [@ EXCEPT !.written = @ + 1]
              [] ok /\ run.written + 1 >= run.num_files /\ again ->
                    [@ EXCEPT !.pc = EnterMakeFragment(generator.data.columns),
                              !.num_files = 1,
                              !.file_assignments = <<>>,
                              !.written = 0]
              [] OTHER ->
                    [@ EXCEPT !.pc = IF Len(fragments) = generator.data.batches
                                     THEN "commit"
                                     ELSE EnterMakeFragment(generator.data.columns),
                              !.num_files = 1,
                              !.file_assignments = <<>>,
                              !.written = 0,
                              !.id = @ + 1,
                              !.fragments = fragments]]
    /\ UNCHANGED <<generator, streams, outsideHostile>>

\* `Dataset::commit(uri, Operation::Overwrite { fragments, schema, .. },
\* ..).await.unwrap()` answers: make_hostile returns the dataset, or panics
Commit(g) ==
    /\ runs[g].pc = "commit"
    /\ \E ok \in BOOLEAN :
        runs' = [runs EXCEPT ![g] = IF ok THEN [@ EXCEPT !.pc = "done"] ELSE Panicked]
    /\ UNCHANGED <<generator, streams, outsideHostile>>

HostileNext ==
    \E g \in Runs :
        \/ StartMakeHostile(g)
        \/ AddHole(g)
        \/ ShuffleIds(g)
        \/ ChooseNumFiles(g)
        \/ ShuffleFiles(g)
        \/ WriteFile(g)
        \/ Commit(g)

SpecHostile == HostileInit /\ [][HostileNext]_vars

(***************************************************************************)
(* One call of make_hostile under fair random choices: no other call      *)
(* reads the numbers of its random generator, so no stream is kept, and    *)
(* an outcome that can be drawn again and again is drawn.                  *)
(***************************************************************************)
\* TestDatasetGenerator::new(data, ..) with or without .seed(1), for
\* 1..MaxBatches batches of the small schemas
AllGenerators ==
    [data : [columns : ArrowSchemas, batches : 1..MaxBatches],
     seed : {None, Some(1)}]

\* the numbers of files make_fragment can choose for the schemas explored
NumFiles == {Len(columns) : columns \in ArrowSchemas}

FairInit ==
    /\ NoDecoderCall
    /\ NoInvocations
    /\ NoBuilder
    /\ NoStores
    /\ generator \in AllGenerators
    /\ streams = <<>>
    /\ runs = [g \in Runs |-> NotStarted]

FairNext ==
    \/ StartMakeHostile(1)
    \/ AddHole(1)
    \/ ShuffleIds(1)
    \/ ChooseNumFiles(1)
    \/ ShuffleFiles(1)
    \/ WriteFile(1)
    \/ Commit(1)

\* every step of the call is taken; a shuffle that can leave the loop of
\* make_schema does, every number of files is chosen, and a shuffle of the
\* files that gives a fragment the loop of make_hostile accepts is drawn
FairChoices ==
    /\ WF_vars(FairNext)
    /\ SF_vars(ShuffleIds(1) /\ runs'[1].pc # "shuffle_ids")
    /\ \A num_files \in NumFiles :
        SF_vars(ChooseNumFiles(1) /\ runs'[1].num_files = num_files)
    /\ SF_vars(ShuffleFiles(1)
               /\ ~retried(runs'[1], Len(generator.data.columns)))

SpecHostileFair == FairInit /\ [][FairNext]_vars /\ FairChoices

(***************************************************************************)
(* Vocabulary of the properties.                                           *)
(***************************************************************************)
\* the table a reference of the given scope is meant to index
TableOfScope(buffers, scope) ==
    CASE scope = BufferType_Page -> buffers.positions_and_sizes
      [] scope = BufferType_Column -> buffers.column_buffers.positions_and_sizes
      [] scope = BufferType_File ->
            buffers.column_buffers.file_buffers.positions_and_sizes

InBounds(buffer_desc, buffers) ==
    buffer_desc.buffer_index < Len(TableOfScope(buffers, buffer_desc.buffer_type))

\* the pair a valid reference has to resolve to
PairOf(buffer_desc, buffers) ==
    TableOfScope(buffers, buffer_desc.buffer_type)[buffer_desc.buffer_index + 1]

IsDecoderCall == call.fn = "decoder_from_array_encoding"

\* the invocation constructs from a Flat node, through either entry point
IsFlatCall ==
    \/ call.fn = "get_buffer_decoder"
    \/ /\ IsDecoderCall
       /\ is_some(call.encoding.array_encoding)
       /\ call.encoding.array_encoding[1].tag = "Flat"

FlatOfCall ==
    IF call.fn = "get_buffer_decoder" THEN call.flat
    ELSE call.encoding.array_encoding[1]

HasValidBuffer(node, buffers) ==
    is_some(node.buffer) /\ InBounds(node.buffer[1], buffers)

RecognisedSchemes == {"none", "zstd"}

(***************************************************************************)
(* C1: for a reference (scope, index) with index within the bounds of the  *)
(* table of its scope, get_buffer returns exactly the pair stored at that  *)
(* index of that table, and no pair of the table of another scope.         *)
(***************************************************************************)
C1_GetBufferReturnsPairOfScope ==
    (/\ call.fn = "get_buffer"
     /\ call.buffer_desc.buffer_type \in BufferTypes
     /\ InBounds(call.buffer_desc, call.buffers))
    => /\ result = Ok(PairOf(call.buffer_desc, call.buffers))
       /\ \A scope \in BufferTypes \ {call.buffer_desc.buffer_type} :
            \A j \in 1..Len(TableOfScope(call.buffers, scope)) :
                result.value # TableOfScope(call.buffers, scope)[j]

\* a File reference to the second entry resolved while the Page and Column
\* tables hold a second entry too
C1_Witness ==
    /\ call.fn = "get_buffer"
    /\ call.buffer_desc = pb_Buffer(1, BufferType_File)
    /\ call.buffers = PageBuffers(2, 2, 2)
    /\ result = Ok(PositionAndSize(100, 100))

\* The buffer references of a descriptor tree.

\* the child descriptors a node carries
ChildrenOf(node) ==
    LET OfOption(c) == IF is_none(c) THEN {} ELSE {c[1]} IN
    CASE node.tag = "Nullable" ->
            IF is_none(node.nullability) THEN {}
            ELSE LET n == node.nullability[1] IN
                 CASE n.tag = "NoNulls" -> OfOption(n.values)
                   [] n.tag = "SomeNulls" -> OfOption(n.validity) \cup OfOption(n.values)
                   [] OTHER -> {}
      [] node.tag = "FixedSizeList" -> OfOption(node.items)
      [] node.tag = "List" -> OfOption(node.offsets)
      [] node.tag = "Binary" -> OfOption(node.indices) \cup OfOption(node.bytes)
      [] node.tag = "Fsst" -> OfOption(node.binary)
      [] node.tag = "Dictionary" -> OfOption(node.indices) \cup OfOption(node.items)
      [] node.tag = "FixedSizeBinary" -> OfOption(node.bytes)
      [] node.tag = "PackedStruct" -> {node.inner[i] : i \in 1..Len(node.inner)}
      [] OTHER -> {}

\* the node kinds that carry a buffer reference of their own
BufferKinds == {"Flat", "Bitpacked", "BitpackedForNonNeg", "PackedStruct"}

RECURSIVE BufferRefs(_)
\* every buffer reference carried by a node of the tree, at any depth
BufferRefs(encoding) ==
    IF is_none(encoding.array_encoding) THEN {} ELSE
    LET node == encoding.array_encoding[1] IN
    (IF node.tag \in BufferKinds /\ is_some(node.buffer) THEN {node.buffer[1]} ELSE {})
    \cup UNION {BufferRefs(c) : c \in ChildrenOf(node)}

HasOutOfBoundsRef(encoding, buffers) ==
    \E r \in BufferRefs(encoding) : ~InBounds(r, buffers)

(***************************************************************************)
(* C2: if any buffer reference carried by any node of the descriptor tree, *)
(* at any depth, has an index at or beyond the length of the table of its  *)
(* scope, decoder_from_array_encoding fails and returns no scheduler.      *)
(***************************************************************************)
C2_OutOfBoundsRefFailsConstruction ==
    (IsDecoderCall /\ HasOutOfBoundsRef(call.encoding, call.buffers))
    => is_panic(result)

(***************************************************************************)
(* C3: construction from a Flat node whose bits_per_value is neither 1 nor *)
(* a multiple of 8 always fails, whatever the buffer tables and the        *)
(* compression config are.                                                 *)
(***************************************************************************)
C3_OddBitWidthFails ==
    (/\ IsFlatCall
     /\ FlatOfCall.bits_per_value # 1
     /\ FlatOfCall.bits_per_value % 8 # 0)
    => is_panic(result)

\* 17 bits with a buffer that resolves and a scheme that resolves: the
\* width is the only reason left to fail
C3_Witness ==
    /\ IsFlatCall
    /\ FlatOfCall.bits_per_value = 17
    /\ HasValidBuffer(FlatOfCall, call.buffers)
    /\ is_some(FlatOfCall.compression)
    /\ FlatOfCall.compression[1].scheme = "zstd"
    /\ result = Panic("not yet implemented")

\* What a Flat node is expected to yield.
SchemeIsRecognised(flat) ==
    is_none(flat.compression) \/ flat.compression[1].scheme \in RecognisedSchemes

SchemeNamed(name) ==
    CASE name = "none" -> "None"
      [] name = "zstd" -> "Zstd"

ExpectedCompressionConfig(flat) ==
    IF is_none(flat.compression) THEN [scheme |-> "None", level |-> None]
    ELSE [scheme |-> SchemeNamed(flat.compression[1].scheme),
          level |-> flat.compression[1].level]

ExpectedValueStrategy(flat, buffers) ==
    [scheduler |-> "ValuePageScheduler",
     bytes_per_value |-> flat.bits_per_value \div 8,
     buffer_offset |-> PairOf(flat.buffer[1], buffers).position,
     buffer_size |-> PairOf(flat.buffer[1], buffers).size,
     compression_config |-> ExpectedCompressionConfig(flat)]

(***************************************************************************)
(* C4: for a Flat node with a valid buffer reference, a bits_per_value     *)
(* that is a multiple of 8 and a compression that is absent or names a     *)
(* recognised scheme, construction returns a Value strategy with           *)
(* bytes_per_value = bits_per_value / 8, buffer_offset and buffer_size the *)
(* resolved pair, and compression config (None, no level) without          *)
(* compression and (the named scheme, the node's level) with it.           *)
(***************************************************************************)
C4_ValueStrategyOfFlat ==
    (/\ IsFlatCall
     /\ HasValidBuffer(FlatOfCall, call.buffers)
     /\ FlatOfCall.bits_per_value % 8 = 0
     /\ SchemeIsRecognised(FlatOfCall))
    => result = Ok(ExpectedValueStrategy(FlatOfCall, call.buffers))

\* the scenario of the unit test: File buffer (0, 100), 8 bits, zstd level 0
C4_Witness ==
    /\ call.fn = "get_buffer_decoder"
    /\ call.flat = pb_Flat(8, Some(pb_Buffer(0, BufferType_File)),
                           Some(pb_Compression("zstd", Some(0))))
    /\ call.buffers = PageBuffers(0, 0, 1)
    /\ result = Ok([scheduler |-> "ValuePageScheduler", bytes_per_value |-> 1,
                    buffer_offset |-> 0, buffer_size |-> 100,
                    compression_config |-> [scheme |-> "Zstd", level |-> Some(0)]])

\* C4 as first stated: a Value strategy for every Flat node with a valid
\* buffer reference and a bits_per_value that is a multiple of 8, whatever
\* scheme name its compression carries
C4_AsStated ==
    (/\ IsFlatCall
     /\ HasValidBuffer(FlatOfCall, call.buffers)
     /\ FlatOfCall.bits_per_value % 8 = 0)
    => /\ is_ok(result)
       /\ result = Ok(ExpectedValueStrategy(FlatOfCall, call.buffers))

ExpectedBitmapStrategy(flat, buffers) ==
    [scheduler |-> "DenseBitmapScheduler",
     buffer_offset |-> PairOf(flat.buffer[1], buffers).position]

(***************************************************************************)
(* C5: a Flat node with bits_per_value = 1, a valid buffer reference and a *)
(* compression that is absent or names a recognised scheme yields a Dense  *)
(* Bitmap strategy at the resolved buffer offset that carries no codec:    *)
(* neither the compression config nor the resolved length shows in it.     *)
(***************************************************************************)
C5_BitmapOfFlat ==
    (/\ IsFlatCall
     /\ FlatOfCall.bits_per_value = 1
     /\ HasValidBuffer(FlatOfCall, call.buffers)
     /\ SchemeIsRecognised(FlatOfCall))
    => result = Ok(ExpectedBitmapStrategy(FlatOfCall, call.buffers))

\* a bitmap built from a node that asks for zstd at level 3
C5_Witness ==
    /\ IsFlatCall
    /\ FlatOfCall = pb_Flat(1, Some(pb_Buffer(1, BufferType_Column)),
                            Some(pb_Compression("zstd", Some(3))))
    /\ result = Ok([scheduler |-> "DenseBitmapScheduler", buffer_offset |-> 5050])

\* C5 as first stated: always a Dense Bitmap, whatever the compression config
C5_AsStated ==
    (/\ IsFlatCall
     /\ FlatOfCall.bits_per_value = 1
     /\ HasValidBuffer(FlatOfCall, call.buffers))
    => result = Ok(ExpectedBitmapStrategy(FlatOfCall, call.buffers))

(***************************************************************************)
(* C6: construction from a Flat node whose compression names a scheme that *)
(* is not a recognised scheme name fails and returns no scheduler.         *)
(***************************************************************************)
C6_UnknownSchemeFails ==
    (IsFlatCall /\ ~SchemeIsRecognised(FlatOfCall)) => is_panic(result)

\* the buffer resolves and the width is supported: the scheme name is the
\* only reason left to fail
C6_Witness ==
    /\ IsFlatCall
    /\ HasValidBuffer(FlatOfCall, call.buffers)
    /\ FlatOfCall.bits_per_value = 8
    /\ is_some(FlatOfCall.compression)
    /\ FlatOfCall.compression[1].scheme = "bogus"
    /\ result = Panic("unwrap on Err")

\* The parts a node kind requires.
OmitsRequiredPart(node) ==
    CASE node.tag \in BufferKinds -> is_none(node.buffer)
      [] node.tag = "Nullable" ->
            \/ is_none(node.nullability)
            \/ LET n == node.nullability[1] IN
               CASE n.tag = "NoNulls" -> is_none(n.values)
                 [] n.tag = "SomeNulls" -> is_none(n.validity) \/ is_none(n.values)
                 [] OTHER -> FALSE
      [] node.tag = "FixedSizeList" -> is_none(node.items)
      [] node.tag = "List" -> is_none(node.offsets)
      [] node.tag = "Binary" -> is_none(node.indices) \/ is_none(node.bytes)
      [] node.tag = "Fsst" -> is_none(node.binary)
      [] node.tag = "Dictionary" -> is_none(node.indices) \/ is_none(node.items)
      [] node.tag = "FixedSizeBinary" -> is_none(node.bytes)
      [] OTHER -> FALSE

ValueTypeOf(data_type) ==
    IF data_type.id = "Dictionary" THEN data_type.value ELSE data_type

Min(a, b) == IF a <= b THEN a ELSE b

RECURSIVE OmitsSomewhere(_)
\* some node of the tree, at any depth, omits a required part
OmitsSomewhere(encoding) ==
    \/ is_none(encoding.array_encoding)
    \/ LET node == encoding.array_encoding[1] IN
       \/ OmitsRequiredPart(node)
       \/ \E c \in ChildrenOf(node) : OmitsSomewhere(c)

(***************************************************************************)
(* C7: construction fails, returning no scheduler, whenever a node omits a *)
(* part its kind requires: the buffer reference of a Flat, Bitpacked,      *)
(* BitpackedForNonNeg or PackedStruct node, a required child descriptor    *)
(* (Nullable values/validity, FixedSizeList items, List offsets, Binary    *)
(* indices/bytes, Fsst binary, Dictionary indices/items, FixedSizeBinary   *)
(* bytes) or the kind tag.                                                 *)
(***************************************************************************)
C7_OmittedPartFails ==
    /\ (IsDecoderCall /\ OmitsSomewhere(call.encoding)) => is_panic(result)
    /\ (call.fn = "get_buffer_decoder" /\ is_none(call.flat.buffer))
            => is_panic(result)

\* The root node of a construction and the schedulers of its children.
RootNode == call.encoding.array_encoding[1]

IsRootOfKind(tag) ==
    /\ IsDecoderCall
    /\ is_some(call.encoding.array_encoding)
    /\ RootNode.tag = tag

\* the strategy built from a child descriptor under a logical type
BuiltFrom(child, data_type) ==
    decoder_from_array_encoding(child, call.buffers, data_type)

(***************************************************************************)
(* C8: for a Nullable node the variant determines the wrapper.  NoNulls:   *)
(* a wrapper holding only the strategy built from the values child.        *)
(* SomeNulls: a wrapper holding the strategy built from the validity child *)
(* as validity and the one built from the values child as values.          *)
(* AllNulls: a wrapper without inner strategy, built without resolving any *)
(* buffer reference, hence for every buffer table and every logical type.  *)
(***************************************************************************)
C8_NullableWrapper ==
    (IsRootOfKind("Nullable") /\ is_some(RootNode.nullability)) =>
    LET n == RootNode.nullability[1] IN
    CASE n.tag = "NoNulls" ->
            (is_some(n.values) /\ is_ok(BuiltFrom(n.values[1], call.data_type)))
            => result = Ok([scheduler |-> "BasicPageScheduler", mode |-> "None",
                            values |-> BuiltFrom(n.values[1], call.data_type).value])
      [] n.tag = "SomeNulls" ->
            (/\ is_some(n.validity) /\ is_some(n.values)
             /\ is_ok(BuiltFrom(n.validity[1], call.data_type))
             /\ is_ok(BuiltFrom(n.values[1], call.data_type)))
            => result = Ok([scheduler |-> "BasicPageScheduler", mode |-> "Some",
                            validity |-> BuiltFrom(n.validity[1], call.data_type).value,
                            values |-> BuiltFrom(n.values[1], call.data_type).value])
      [] n.tag = "AllNulls" ->
            result = Ok([scheduler |-> "BasicPageScheduler", mode |-> "All"])

\* SomeNulls over a bitmap as validity and fixed-width values
C8_Witness ==
    /\ IsRootOfKind("Nullable")
    /\ RootNode = pb_SomeNulls(
            Some(pb_ArrayEncoding(pb_Flat(1, Some(pb_Buffer(0, BufferType_Page)), None))),
            Some(Sibling))
    /\ is_ok(result)
    /\ result.value.validity.scheduler = "DenseBitmapScheduler"
    /\ result.value.values.scheduler = "ValuePageScheduler"

(***************************************************************************)
(* C9: every recursive call hands the child the logical type of its        *)
(* parent, except that the items child of a Dictionary node gets the value *)
(* type (the inner value type of a dictionary type, else the whole type)   *)
(* and the i-th inner encoding of a PackedStruct node gets the type of the *)
(* i-th struct field.  Stated on the scheduler a successful construction   *)
(* returns: each child scheduler in it is the one built from the child     *)
(* descriptor under exactly that type.                                     *)
(***************************************************************************)
C9_TypePassedToChildren ==
    (IsDecoderCall /\ is_some(call.encoding.array_encoding) /\ is_ok(result)) =>
    LET node == RootNode
        T == call.data_type
        r == result.value
    IN
    CASE node.tag = "Nullable" ->
            LET n == node.nullability[1] IN
            CASE n.tag = "NoNulls" -> Ok(r.values) = BuiltFrom(n.values[1], T)
              [] n.tag = "SomeNulls" ->
                    /\ Ok(r.validity) = BuiltFrom(n.validity[1], T)
                    /\ Ok(r.values) = BuiltFrom(n.values[1], T)
              [] OTHER -> TRUE
      [] node.tag = "FixedSizeList" ->
            Ok(r.items_scheduler) = BuiltFrom(node.items[1], T)
      [] node.tag = "List" -> result = BuiltFrom(node.offsets[1], T)
      [] node.tag = "Binary" ->
            /\ Ok(r.indices_scheduler) = BuiltFrom(node.indices[1], T)
            /\ Ok(r.bytes_scheduler) = BuiltFrom(node.bytes[1], T)
      [] node.tag = "Fsst" -> Ok(r.inner_scheduler) = BuiltFrom(node.binary[1], T)
      [] node.tag = "Dictionary" ->
            /\ Ok(r.indices_scheduler) = BuiltFrom(node.indices[1], T)
            /\ Ok(r.items_scheduler) = BuiltFrom(node.items[1], ValueTypeOf(T))
      [] node.tag = "FixedSizeBinary" ->
            Ok(r.bytes_scheduler) = BuiltFrom(node.bytes[1], T)
      [] node.tag = "PackedStruct" ->
            /\ Len(r.inner_schedulers) = Len(T.fields)
            /\ \A i \in 1..Len(T.fields) :
                Ok(r.inner_schedulers[i]) = BuiltFrom(node.inner[i], T.fields[i].data_type)
      [] OTHER -> TRUE

\* a Dictionary node under a dictionary type with large-utf8 values whose
\* items are Binary: the items were built with 8-byte offsets, which only
\* the value type gives
C9_Witness ==
    /\ IsRootOfKind("Dictionary")
    /\ call.data_type = DataType_Dictionary(DataType("Int32"), DataType("LargeUtf8"))
    /\ is_ok(result)
    /\ result.value.items_scheduler.scheduler = "BinaryPageScheduler"
    /\ result.value.items_scheduler.offset_type = DataType("Int64")

(***************************************************************************)
(* C10: the strategy built for a Dictionary node has should_decode_dict    *)
(* true exactly when the logical type passed to the node is not a          *)
(* dictionary type, and num_dictionary_items as carried by the node.       *)
(***************************************************************************)
C10_DictionaryFlags ==
    (IsRootOfKind("Dictionary") /\ is_ok(result)) =>
        /\ result.value.scheduler = "DictionaryPageScheduler"
        /\ result.value.should_decode_dict = (call.data_type.id # "Dictionary")
        /\ result.value.num_dictionary_items = RootNode.num_dictionary_items

\* a dictionary type asked for: the dictionary is not decoded
C10_Witness ==
    /\ IsRootOfKind("Dictionary")
    /\ call.data_type.id = "Dictionary"
    /\ is_ok(result)
    /\ result.value.should_decode_dict = FALSE
    /\ result.value.num_dictionary_items = 6

LargeTypeIds == {"LargeBinary", "LargeUtf8"}

(***************************************************************************)
(* C11: the strategy built for a Binary node has the 8-byte integer type   *)
(* as offset type exactly when the logical type is large-binary or         *)
(* large-utf8 and the 4-byte integer type for every other logical type,    *)
(* and the null_adjustment of the node unchanged.                          *)
(***************************************************************************)
C11_BinaryOffsetType ==
    (IsRootOfKind("Binary") /\ is_ok(result)) =>
        /\ result.value.scheduler = "BinaryPageScheduler"
        /\ result.value.offset_type =
                (IF call.data_type.id \in LargeTypeIds
                 THEN [id |-> "Int64"] ELSE [id |-> "Int32"])
        /\ result.value.null_adjustment = RootNode.null_adjustment

\* large-utf8 strings with a null adjustment of 7: 8-byte offsets
C11_Witness ==
    /\ IsRootOfKind("Binary")
    /\ call.data_type = DataType("LargeUtf8")
    /\ RootNode.null_adjustment = 7
    /\ is_ok(result)
    /\ result.value.offset_type = [id |-> "Int64"]
    /\ result.value.null_adjustment = 7

(***************************************************************************)
(* C12: for a FixedSizeBinary node whose bytes child can be built, the     *)
(* strategy uses 8 bytes per offset under large-binary or large-utf8 and 4 *)
(* bytes per offset under binary or utf8, with the byte_width of the node  *)
(* unchanged; under every other logical type construction fails and        *)
(* returns no scheduler.                                                   *)
(***************************************************************************)
C12_FixedSizeBinaryOffsets ==
    IsRootOfKind("FixedSizeBinary") =>
    LET id == call.data_type.id IN
    IF id \in LargeTypeIds \cup {"Binary", "Utf8"}
    THEN (is_some(RootNode.bytes) /\ is_ok(BuiltFrom(RootNode.bytes[1], call.data_type)))
         => result = Ok([scheduler |-> "FixedSizeBinaryPageScheduler",
                         bytes_scheduler |->
                            BuiltFrom(RootNode.bytes[1], call.data_type).value,
                         byte_width |-> RootNode.byte_width,
                         bytes_per_offset |-> IF id \in LargeTypeIds THEN 8 ELSE 4])
    ELSE is_panic(result)

\* a 32-bit integer type over a bytes child that can be built: the logical
\* type is the only reason to fail
C12_Witness ==
    /\ IsRootOfKind("FixedSizeBinary")
    /\ call.data_type = DataType("Int32")
    /\ RootNode = pb_FixedSizeBinary(Some(Sibling), 32)
    /\ call.buffers = PageBuffers(MaxTableLen, MaxTableLen, MaxTableLen)
    /\ result = Panic("FixedSizeBinary only supports binary and utf8 types")

(***************************************************************************)
(* C13: construction from a PackedStruct node fails whenever the logical   *)
(* type is not a struct type, and whenever it is a struct type whose       *)
(* number of fields differs from the number of inner encodings of the      *)
(* node, with fewer inner encodings than fields as well as with more.      *)
(***************************************************************************)
C13_PackedStructShapeChecked ==
    (/\ IsRootOfKind("PackedStruct")
     /\ \/ call.data_type.id # "Struct"
        \/ Len(call.data_type.fields) # Len(RootNode.inner))
    => is_panic(result)

\* The node kinds decoder_from_array_encoding constructs from.
SupportedKinds ==
    {"Nullable", "Bitpacked", "Flat", "FixedSizeList", "List", "Binary", "Fsst",
     "Dictionary", "FixedSizeBinary", "PackedStruct", "BitpackedForNonNeg"}

RECURSIVE ReachesUnsupported(_, _)
\* some node that construction from encoding under data_type reaches is a
\* bare Struct node or of a kind that is not supported
ReachesUnsupported(encoding, data_type) ==
    /\ is_some(encoding.array_encoding)
    /\ LET node == encoding.array_encoding[1] IN
       \/ node.tag \notin SupportedKinds
       \/ CASE node.tag = "PackedStruct" ->
                 /\ data_type.id = "Struct"
                 /\ \E i \in 1..Min(Len(node.inner), Len(data_type.fields)) :
                        ReachesUnsupported(node.inner[i], data_type.fields[i].data_type)
            [] node.tag = "Dictionary" ->
                 \/ /\ is_some(node.indices)
                    /\ ReachesUnsupported(node.indices[1], data_type)
                 \/ /\ is_some(node.items)
                    /\ ReachesUnsupported(node.items[1], ValueTypeOf(data_type))
            [] OTHER ->
                 \E c \in ChildrenOf(node) : ReachesUnsupported(c, data_type)

(***************************************************************************)
(* C14: whenever construction reaches a bare Struct node or a node of a    *)
(* kind that is not supported, at any depth of the descriptor tree,        *)
(* construction fails and returns no scheduler.  The nodes construction    *)
(* reaches are the root, the children of a reached node and, of a reached  *)
(* PackedStruct node under a struct type, the inner encodings that have a  *)
(* struct field.                                                           *)
(***************************************************************************)
C14_UnsupportedNodeFails ==
    (IsDecoderCall /\ ReachesUnsupported(call.encoding, call.data_type))
    => is_panic(result)

\* a node of format 2.1 two levels below the root, under wrappers that are
\* in order: the node kind is the only reason to fail
C14_Witness ==
    /\ IsDecoderCall
    /\ call.encoding =
            pb_ArrayEncoding(pb_NoNulls(Some(pb_ArrayEncoding(
                pb_FixedSizeList(Some(pb_ArrayEncoding(pb_Constant)), 3)))))
    /\ result = Panic("unreachable")

RECURSIVE StrategyOfKind(_)
\* the scheduler type that stands for a node kind
StrategyOfKind(node) ==
    CASE node.tag = "Flat" ->
            IF node.bits_per_value = 1 THEN "DenseBitmapScheduler"
            ELSE "ValuePageScheduler"
      [] node.tag = "Bitpacked" -> "BitpackedScheduler"
      [] node.tag = "BitpackedForNonNeg" -> "BitpackedForNonNegScheduler"
      [] node.tag = "Nullable" -> "BasicPageScheduler"
      [] node.tag = "FixedSizeList" -> "FixedListScheduler"
      [] node.tag = "List" -> StrategyOfKind(node.offsets[1].array_encoding[1])
      [] node.tag = "Binary" -> "BinaryPageScheduler"
      [] node.tag = "Fsst" -> "FsstPageScheduler"
      [] node.tag = "Dictionary" -> "DictionaryPageScheduler"
      [] node.tag = "FixedSizeBinary" -> "FixedSizeBinaryPageScheduler"
      [] node.tag = "PackedStruct" -> "PackedStructPageScheduler"

(***************************************************************************)
(* C15: a List node is a transparent pass-through: building List{offsets}  *)
(* yields the same scheduler, or the same failure, as building the offsets *)
(* descriptor directly with the same tables and the same logical type; the *)
(* scheduler returned is of the type of the offsets node, with no wrapper  *)
(* added.                                                                  *)
(***************************************************************************)
C15_ListIsPassThrough ==
    (IsRootOfKind("List") /\ is_some(RootNode.offsets)) =>
        /\ result = BuiltFrom(RootNode.offsets[1], call.data_type)
        /\ is_ok(result) =>
                result.value.scheduler =
                    StrategyOfKind(RootNode.offsets[1].array_encoding[1])

\* a List over the offsets of a Binary node under large-utf8: the Binary
\* strategy itself comes back, built under the type handed to the List
C15_Witness ==
    /\ IsRootOfKind("List")
    /\ RootNode.offsets = Some(pb_ArrayEncoding(pb_Binary(Some(Sibling), Some(Sibling), 1)))
    /\ call.data_type = DataType("LargeUtf8")
    /\ is_ok(result)
    /\ result.value.scheduler = "BinaryPageScheduler"
    /\ result.value.offset_type = [id |-> "Int64"]

(***************************************************************************)
(* C16: a FixedSizeList strategy of dimension d over n item rows exposes   *)
(* n / d logical rows and delegates a request for the logical rows [s, e)  *)
(* to its item strategy as the item rows [s * d, e * d); d is the          *)
(* dimension carried by the FixedSizeList node.                            *)
(***************************************************************************)
C16_FixedSizeListRows ==
    (call.fn = "schedule_ranges" /\ is_ok(result)) =>
    LET node == call.encoding.array_encoding[1]
        d == node.dimension
    IN /\ result.value.num_rows = call.item_rows \div d
       /\ result.value.request.item_range =
                RowRange(call.range.start * d, call.range.end * d)
       /\ Ok(result.value.request.delegate) =
                decoder_from_array_encoding(node.items[1], call.buffers, call.data_type)

\* dimension 3 over 9 item rows: 3 rows, and [1, 2) becomes [3, 6)
C16_Witness ==
    /\ call.fn = "schedule_ranges"
    /\ call.encoding.array_encoding[1].dimension = 3
    /\ call.item_rows = 9
    /\ call.range = RowRange(1, 2)
    /\ is_ok(result)
    /\ result.value.num_rows = 3
    /\ result.value.request.item_range = RowRange(3, 6)

HasLoaded == loaded.kind # "none"

(***************************************************************************)
(* C18: for any sequence of DatasetBuilder calls in which a session has    *)
(* been set, by with_session or by with_read_params carrying a session,    *)
(* load goes on with the session set most recently and creates no session  *)
(* from the index and metadata cache sizes, whatever cache sizes were set  *)
(* and whether they were set before or after the session.                  *)
(***************************************************************************)
C18_LoadUsesSessionSet ==
    (HasLoaded /\ is_some(session_set)) => loaded = SharedSession(session_set[1])

\* session 1, then session 2, then an index cache size: load goes on with
\* session 2
C18_Witness ==
    /\ calls = <<"with_session", "with_read_params", "with_index_cache_size", "load">>
    /\ session_set = Some(2)
    /\ builder.index_cache_size_bytes = 40
    /\ builder.metadata_cache_size_bytes = 0
    /\ loaded = SharedSession(2)

\* no task has a request under way
Quiescent == \A t \in DOMAIN tasks : tasks[t].pc = "idle"

(***************************************************************************)
(* C19: for any interleaving of requests issued through IoTrackingStore    *)
(* instances that record into one IoStats, whenever no request is in       *)
(* flight, num_hops, counted since the stats were last reset, equals the   *)
(* number of disjoint periods during which at least one request was in     *)
(* flight.                                                                 *)
(***************************************************************************)
C19_HopsArePeriods ==
    Quiescent => stats.num_hops = periods


\* what a finished call of make_hostile committed: the field ids of the
\* schema and the field structure of every fragment
Committed(g) ==
    [schema |-> fields_pre_order_ids(runs[g].schema),
     fragments |-> [f \in DOMAIN runs[g].fragments |->
                        field_structure(runs[g].fragments[f])]]

BothDone == \A g \in Runs : runs[g].pc = "done"

\* C20: make_hostile is deterministic given a seed: two calls on
\* generators with the same data and the same seed commit the same schema
\* (the same field ids) and the same field structure, fragment by fragment
\* and file by file.
C20_SeededMakeHostileDeterministic ==
    (is_some(generator.seed) /\ BothDone) => Committed(1) = Committed(2)

C20_Witness ==
    /\ is_some(generator.seed)
    /\ BothDone
    /\ generator.data = [columns |-> <<1, 2>>, batches |-> 2]
    /\ runs[1].seed = 1 /\ runs[2].seed = 1
    /\ Len(streams[1]) >= 5
    /\ Committed(1) = Committed(2)
    /\ Len(Committed(1).fragments) = 2
    /\ Len(Committed(1).fragments[2]) = 2

\* C25: whenever construction from a Flat node returns a Value strategy,
\* the bits_per_value of the node is a multiple of 8 and at least 8, so the
\* strategy has bytes_per_value of at least 1.
C25_ValueStrategyHasWidth ==
    (IsFlatCall /\ is_ok(result) /\ result.value.scheduler = "ValuePageScheduler")
        => /\ FlatOfCall.bits_per_value % 8 = 0
           /\ FlatOfCall.bits_per_value >= 8
           /\ result.value.bytes_per_value >= 1

\* C27: in every reachable state of the shared IoStats, under any
\* interleaving of recorded reads, recorded writes and incremental_stats
\* calls, read_iops is the number of entries of requests.
C27_ReadIopsCountsRequests == stats.read_iops = Len(stats.requests)

C27_Witness ==
    /\ stats.read_iops = 1
    /\ stats.write_iops = 1
    /\ stats.read_bytes = RangeLength
    /\ stats.requests = <<[method |-> "get_range"]>>

\* C21: for data with more than one top-level column and more than one
\* batch, every fragment after the first of the dataset make_hostile
\* returns has a field structure different from that of the first; with
\* one top-level column all fragments have the same layout of one file.
C21_LaterFragmentsDiffer ==
    \A g \in Runs :
        runs[g].pc = "done" =>
            LET fragments == Committed(g).fragments
                num_columns == Len(generator.data.columns)
            IN /\ (num_columns > 1 /\ generator.data.batches > 1) =>
                    \A f \in 2..Len(fragments) : fragments[f] # fragments[1]
               /\ num_columns = 1 =>
                    \A f \in 1..Len(fragments) :
                        fragments[f] = fragments[1] /\ Len(fragments[f]) = 1

C21_Witness ==
    /\ runs[1].pc = "done"
    /\ generator.data = [columns |-> <<1, 1>>, batches |-> 2]
    /\ runs[1].pos > 5
    /\ Len(Committed(1).fragments) = 2
    /\ Committed(1).fragments[1] # Committed(1).fragments[2]

\* C26: under fair random choices the loop of make_hostile ends: when no
\* write of a file and not the commit fails (they panic), make_hostile
\* commits one fragment for every batch, with the ids 0, 1, ... in the
\* order of the batches.
C26_MakeHostileCommits ==
    [](runs[1].pc # "panicked")
        => <>(/\ runs[1].pc = "done"
              /\ Len(runs[1].fragments) = generator.data.batches
              /\ \A f \in 1..Len(runs[1].fragments) :
                    runs[1].fragments[f].id = f - 1)

C26_Witness ==
    /\ runs[1].pc = "done"
    /\ generator = [data |-> [columns |-> <<1, 2>>, batches |-> 2], seed |-> None]
    /\ runs[1].seed = Unrecorded
    /\ Len(runs[1].fragments) = 2
    /\ runs[1].fragments[1].id = 0 /\ runs[1].fragments[2].id = 1

\* call g has the schema make_schema returned
SchemaMade(g) ==
    runs[g].pc \in {"num_files", "shuffle_files", "write", "commit", "done"}

\* ids == its sorted copy
IsSorted(ids) == \A i, j \in DOMAIN ids : i < j => ids[i] <= ids[j]

\* sorted, some two consecutive ids differ by more than 1
HasHole(ids) ==
    LET present == {ids[i] : i \in DOMAIN ids} IN
    \E low, high \in present :
        /\ high - low > 1
        /\ \A between \in (low + 1)..(high - 1) : between \notin present

\* as many of every id in one list as in the other
IsPermutation(left, right) ==
    /\ Len(left) = Len(right)
    /\ \A id \in {left[i] : i \in DOMAIN left} \cup {right[i] : i \in DOMAIN right} :
        Cardinality({i \in DOMAIN left : left[i] = id})
            = Cardinality({i \in DOMAIN right : right[i] = id})

\* C22: for every schema with at least two fields, the field ids of the
\* schema make_schema returns, read in pre-order, are not in ascending
\* sorted order, whatever the random choices.
C22_IdsNotSorted ==
    \A g \in Runs :
        (SchemaMade(g) /\ Len(runs[g].schema) >= 2)
            => ~IsSorted(fields_pre_order_ids(runs[g].schema))

\* C23: for every schema with at least two top-level columns, the field
\* ids of the schema make_schema returns have at least one hole.
C23_IdsHaveHole ==
    \A g \in Runs :
        (SchemaMade(g) /\ Len(generator.data.columns) >= 2)
            => HasHole(fields_pre_order_ids(runs[g].schema))

\* C24: for a batch with at least two columns and min_num_files = 2, the
\* fragment make_fragment returns has more than one file, no file is
\* empty, the field ids of its files together are a permutation of the
\* pre-order field ids of the schema, and they are never those ids in the
\* order of the schema.
C24_FragmentSplitsColumns ==
    \A g \in Runs :
        (/\ Len(generator.data.columns) >= 2
         /\ min_num_files_of(generator.data) = 2
         /\ runs[g].fragments # <<>>)
            => LET files == field_structure(runs[g].fragments[1])
                   schema_field_ids == fields_pre_order_ids(runs[g].schema)
               IN /\ Len(files) > 1
                  /\ \A f \in DOMAIN files : files[f] # <<>>
                  /\ IsPermutation(Concat(files), schema_field_ids)
                  /\ Concat(files) # schema_field_ids

C24_Witness ==
    /\ generator.data = [columns |-> TestSchema, batches |-> 1]
    /\ runs[1].pc = "done"
    /\ LET ids == fields_pre_order_ids(runs[1].schema) IN
       field_structure(runs[1].fragments[1])
            = << <<ids[2], ids[3], ids[4]>>, <<ids[1]>>, <<ids[5]>> >>
====
